---- MODULE Spec2Model ----
(***************************************************************************)
(* A model of the ArchGee job scraper (src/python-scraper): the           *)
(* deduplication cache, the ingest client and the orchestration in        *)
(* main.py.                                                                *)
(*                                                                         *)
(* Text is modelled as a sequence of one-character strings, so that       *)
(* str.lower(), str.strip() and substring search are computed and not     *)
(* assumed.  SHA-256 is modelled as injective: the digest of a key is the  *)
(* key itself.                                                             *)
(***************************************************************************)
EXTENDS Integers, Sequences, FiniteSets, TLC

(***************************************************************************)
(* Bounds of the model.                                                    *)
(***************************************************************************)
MaxBatchLen == 2
MaxJobs == 5
MaxBatchSize == 3
MaxFetch == 2
MaxRuns == 2
MaxEntries == 3
MaxResults == 2
MaxPageLen == 2
MaxPages == 2
MaxFilterLen == 2
MaxTicks == 3
MaxPageNo == 11

(***************************************************************************)
(* Program constants.                                                      *)
(***************************************************************************)
CACHE_EXPIRY_DAYS == 30
SECONDS_PER_DAY == 86400
BATCH_SIZE == 50
FETCH_INTERVAL_HOURS == 6
SECONDS_PER_HOUR == 3600

None == "None"

(***************************************************************************)
(* Python str helpers.                                                     *)
(***************************************************************************)
UpperLetters ==
  <<"A","B","C","D","E","F","G","H","I","J","K","L","M",
    "N","O","P","Q","R","S","T","U","V","W","X","Y","Z">>
LowerLetters ==
  <<"a","b","c","d","e","f","g","h","i","j","k","l","m",
    "n","o","p","q","r","s","t","u","v","w","x","y","z">>
Whitespace == {" ", "\t", "\n"}

OtherChars == {" ", "\t", "\n", "|", "-", ",", "0", "1", "2", "3"}
Chars == {UpperLetters[i] : i \in 1..26} \cup {LowerLetters[i] : i \in 1..26}
           \cup OtherChars

LowerChar ==
  [c \in Chars |->
     IF \E i \in 1..26 : UpperLetters[i] = c
     THEN LowerLetters[CHOOSE i \in 1..26 : UpperLetters[i] = c]
     ELSE c]

\* str.lower()
lower(s) == [i \in 1..Len(s) |-> LowerChar[s[i]]]

RECURSIVE lstrip(_)
lstrip(s) ==
  IF s # <<>> /\ Head(s) \in Whitespace THEN lstrip(Tail(s)) ELSE s

RECURSIVE rstrip(_)
rstrip(s) ==
  IF s # <<>> /\ s[Len(s)] \in Whitespace
  THEN rstrip(SubSeq(s, 1, Len(s) - 1))
  ELSE s

\* str.strip()
strip(s) == rstrip(lstrip(s))

\* Python truthiness of an Optional[str]
Truthy(v) == v # None /\ v # ""

(***************************************************************************)
(* ScrapedJob records.                                                     *)
(***************************************************************************)
ScrapedJob(t, d, c, l, id) ==
  [title |-> t, description |-> d, company |-> c, location |-> l,
   source_job_id |-> id]

\* What a validator or a constructor does: raise, or return a value.
Raised == [raised |-> TRUE, value |-> <<>>]
Returned(x) == [raised |-> FALSE, value |-> x]

\* ScrapedJob.must_not_be_empty without the final strip()
must_not_be_empty_NoStrip(v) ==
  IF v = <<>> \/ strip(v) = <<>> THEN Raised ELSE Returned(v)

\* ScrapedJob.must_not_be_empty
must_not_be_empty(v) ==
  IF v = <<>> \/ strip(v) = <<>> THEN Raised ELSE Returned(strip(v))

EMPLOYMENT_TYPES ==
  {"full_time", "part_time", "contract", "freelance", "internship"}

\* ScrapedJob.validate_employment_type
validate_employment_type(v) ==
  IF v = None THEN None
  ELSE IF v \notin EMPLOYMENT_TYPES THEN "full_time"
  ELSE v

\* ScrapedJob(**kw): the validators run on the keyword arguments; the
\* record is built only when none of them raises.
ScrapedJob_init(kw) ==
  LET t == must_not_be_empty(kw.title)
      d == must_not_be_empty(kw.description)
      c == must_not_be_empty(kw.company)
  IN  IF t.raised \/ d.raised \/ c.raised THEN Raised
      ELSE Returned([kw EXCEPT
                       !.title = t.value,
                       !.description = d.value,
                       !.company = c.value,
                       !.employment_type =
                          validate_employment_type(kw.employment_type)])

\* A posted_at value and datetime.isoformat() of it.
POSTED_AT == "datetime(2024, 6, 15, 12, 0, 0, tzinfo=timezone.utc)"
isoformat(dt) == IF dt = POSTED_AT THEN "2024-06-15T12:00:00+00:00" ELSE dt

REQUIRED_FIELDS == {"title", "description", "company", "location"}
OPTIONAL_FIELDS ==
  {"company_website", "url", "source_job_id", "apply_url", "salary_text",
   "employment_type", "posted_at"}

\* to_ingest_payload with every field copied
to_ingest_payload_AllFields(job) ==
  [k \in REQUIRED_FIELDS \cup OPTIONAL_FIELDS |->
     IF k = "posted_at" /\ job[k] # None THEN isoformat(job[k]) ELSE job[k]]

\* ScrapedJob.to_ingest_payload: the dict as a function from its keys
to_ingest_payload(job) ==
  [k \in REQUIRED_FIELDS \cup {f \in OPTIONAL_FIELDS : Truthy(job[f])} |->
     IF k = "posted_at" THEN isoformat(job[k]) ELSE job[k]]

(***************************************************************************)
(* DedupCache (utils/dedup.py).  The table seen_jobs is a set of rows with *)
(* primary key hash.                                                       *)
(***************************************************************************)
_hash_job_CaseSensitive(job) ==
  strip(job.title) \o <<"|">> \o strip(job.company)
    \o <<"|">> \o strip(job.location)

_hash_job(job) ==
  strip(lower(job.title)) \o <<"|">> \o strip(lower(job.company))
    \o <<"|">> \o strip(lower(job.location))

is_seen_HashOnly(st, job) == \E r \in st : r.hash = _hash_job(job)

is_seen(st, job) ==
  IF Truthy(job.source_job_id)
     /\ \E r \in st : r.source_job_id = job.source_job_id
  THEN TRUE
  ELSE \E r \in st : r.hash = _hash_job(job)

\* conn.commit() left out: the transaction is dropped when the connection
\* goes.
commit_Skipped(file, tx) == file

\* conn.commit(): the rows of the transaction are the file.
commit(file, tx) == tx

mark_seen_PlainInsert(st, job, source, t) ==
  st \cup {[hash |-> _hash_job(job), source |-> source,
            source_job_id |-> job.source_job_id,
            title |-> job.title, created_at |-> t]}

mark_seen(st, job, source, t) ==
  LET h == _hash_job(job)
  IN  {r \in st : r.hash # h}
        \cup {[hash |-> h, source |-> source,
               source_job_id |-> job.source_job_id,
               title |-> job.title, created_at |-> t]}

filter_new(st, jobs) == SelectSeq(jobs, LAMBDA j : ~is_seen(st, j))

RECURSIVE mark_batch_seen(_, _, _, _)
mark_batch_seen(st, jobs, source, t) ==
  IF jobs = <<>> THEN st
  ELSE mark_batch_seen(mark_seen(st, Head(jobs), source, t),
                       Tail(jobs), source, t)

\* The expiry window in seconds.
EXPIRY_SECONDS == CACHE_EXPIRY_DAYS * SECONDS_PER_DAY

\* cleanup_expired with `<=` in the DELETE
cleanup_expired_Inclusive(st, t) ==
  LET cutoff == t - (CACHE_EXPIRY_DAYS * SECONDS_PER_DAY)
  IN  {r \in st : ~(r.created_at <= cutoff)}

cleanup_expired(st, t) ==
  LET cutoff == t - (CACHE_EXPIRY_DAYS * SECONDS_PER_DAY)
  IN  {r \in st : ~(r.created_at < cutoff)}

count(st) == Cardinality(st)

(***************************************************************************)
(* KeywordFilter (filters/keyword_filter.py).                              *)
(***************************************************************************)
ARCHITECTURE_KEYWORDS ==
  <<<<"a","r","c","h","i","t","e","c","t">>,
    <<"a","r","c","h","i","t","e","c","t","u","r","e">>,
    <<"a","r","c","h","i","t","e","c","t","u","r","a","l">>,
    <<"i","n","t","e","r","i","o","r"," ","d","e","s","i","g","n">>,
    <<"i","n","t","e","r","i","o","r"," ","d","e","s","i","g","n","e","r">>,
    <<"l","a","n","d","s","c","a","p","e"," ","a","r","c","h","i","t","e","c","t">>,
    <<"l","a","n","d","s","c","a","p","e"," ","d","e","s","i","g","n">>,
    <<"u","r","b","a","n"," ","d","e","s","i","g","n">>,
    <<"u","r","b","a","n"," ","p","l","a","n","n","e","r">>,
    <<"u","r","b","a","n"," ","p","l","a","n","n","i","n","g">>,
    <<"b","i","m">>,
    <<"r","e","v","i","t">>,
    <<"a","u","t","o","c","a","d">>,
    <<"a","r","c","h","i","c","a","d">>,
    <<"b","u","i","l","d","i","n","g"," ","d","e","s","i","g","n">>,
    <<"s","u","s","t","a","i","n","a","b","l","e"," ","d","e","s","i","g","n">>,
    <<"h","e","r","i","t","a","g","e">>,
    <<"c","o","n","s","e","r","v","a","t","i","o","n"," ","a","r","c","h","i","t","e","c","t">>,
    <<"m","a","s","t","e","r","p","l","a","n">>,
    <<"t","o","w","n"," ","p","l","a","n","n","e","r">>,
    <<"t","o","w","n"," ","p","l","a","n","n","i","n","g">>,
    <<"s","u","s","t","a","i","n","a","b","i","l","i","t","y"," ","c","o","n","s","u","l","t","a","n","t">>,
    <<"p","l","a","n","n","i","n","g"," ","c","o","n","s","u","l","t","a","n","t">>,
    <<"b","u","i","l","d","i","n","g"," ","s","u","r","v","e","y","o","r">>,
    <<"q","u","a","n","t","i","t","y"," ","s","u","r","v","e","y","o","r">>,
    <<"c","o","n","s","t","r","u","c","t","i","o","n"," ","m","a","n","a","g","e","r">>,
    <<"p","r","o","j","e","c","t"," ","a","r","c","h","i","t","e","c","t">>,
    <<"d","e","s","i","g","n"," ","a","r","c","h","i","t","e","c","t">>,
    <<"r","e","s","i","d","e","n","t","i","a","l"," ","a","r","c","h","i","t","e","c","t">>,
    <<"c","o","m","m","e","r","c","i","a","l"," ","a","r","c","h","i","t","e","c","t">>,
    <<"3","d"," ","v","i","s","u","a","l","i","s","e","r">>,
    <<"3","d"," ","v","i","s","u","a","l","i","z","e","r">>,
    <<"a","r","c","h","i","t","e","c","t","u","r","a","l"," ","t","e","c","h","n","o","l","o","g","i","s","t">>,
    <<"a","r","c","h","i","t","e","c","t","u","r","a","l"," ","t","e","c","h","n","i","c","i","a","n">>,
    <<"r","i","b","a">>,
    <<"a","r","b">>,
    <<"a","i","a">>>>

EXCLUDE_KEYWORDS ==
  <<<<"s","o","f","t","w","a","r","e"," ","a","r","c","h","i","t","e","c","t">>,
    <<"c","l","o","u","d"," ","a","r","c","h","i","t","e","c","t">>,
    <<"d","a","t","a"," ","a","r","c","h","i","t","e","c","t">>,
    <<"s","o","l","u","t","i","o","n","s"," ","a","r","c","h","i","t","e","c","t">>,
    <<"e","n","t","e","r","p","r","i","s","e"," ","a","r","c","h","i","t","e","c","t">>,
    <<"n","e","t","w","o","r","k"," ","a","r","c","h","i","t","e","c","t">>,
    <<"s","e","c","u","r","i","t","y"," ","a","r","c","h","i","t","e","c","t">>,
    <<"s","y","s","t","e","m"," ","a","r","c","h","i","t","e","c","t">>,
    <<"s","y","s","t","e","m","s"," ","a","r","c","h","i","t","e","c","t">>,
    <<"i","t"," ","a","r","c","h","i","t","e","c","t">>,
    <<"i","n","f","o","r","m","a","t","i","o","n"," ","a","r","c","h","i","t","e","c","t">>,
    <<"w","e","b"," ","a","r","c","h","i","t","e","c","t">>,
    <<"p","l","a","t","f","o","r","m"," ","a","r","c","h","i","t","e","c","t">>,
    <<"i","n","f","r","a","s","t","r","u","c","t","u","r","e"," ","a","r","c","h","i","t","e","c","t">>,
    <<"t","e","c","h","n","i","c","a","l"," ","a","r","c","h","i","t","e","c","t">>,
    <<"a","p","p","l","i","c","a","t","i","o","n"," ","a","r","c","h","i","t","e","c","t">>,
    <<"d","e","v","o","p","s">>,
    <<"k","u","b","e","r","n","e","t","e","s">>,
    <<"t","e","r","r","a","f","o","r","m">>,
    <<"m","a","c","h","i","n","e"," ","l","e","a","r","n","i","n","g">>,
    <<"d","e","e","p"," ","l","e","a","r","n","i","n","g">>,
    <<"f","u","l","l","s","t","a","c","k">>,
    <<"f","u","l","l","-","s","t","a","c","k">>,
    <<"f","r","o","n","t","e","n","d"," ","d","e","v","e","l","o","p","e","r">>,
    <<"b","a","c","k","e","n","d"," ","d","e","v","e","l","o","p","e","r">>>>

\* re.search of one escaped keyword: a substring test.
Contains(text, kw) ==
  \E i \in 0..(Len(text) - Len(kw)) : SubSeq(text, i + 1, i + Len(kw)) = kw

\* _compile_pattern(keywords).search(text) under re.IGNORECASE
PatternSearch(keywords, text) ==
  \E k \in 1..Len(keywords) : Contains(lower(text), lower(keywords[k]))

is_relevant_ExcludeAnywhere(include_keywords, exclude_keywords, job) ==
  /\ ~PatternSearch(exclude_keywords, job.title)
  /\ ~PatternSearch(exclude_keywords, job.description)
  /\ \/ PatternSearch(include_keywords, job.title)
     \/ PatternSearch(include_keywords, job.description)

is_relevant(include_keywords, exclude_keywords, job) ==
  LET title_lower == lower(job.title)
      desc_lower == IF job.description # <<>> THEN lower(job.description)
                    ELSE <<>>
  IN  IF PatternSearch(exclude_keywords, title_lower) THEN FALSE
      ELSE IF PatternSearch(include_keywords, title_lower) THEN TRUE
      ELSE IF PatternSearch(include_keywords, desc_lower) THEN TRUE
      ELSE FALSE

filter_jobs(include_keywords, exclude_keywords, jobs) ==
  SelectSeq(jobs, LAMBDA j : is_relevant(include_keywords, exclude_keywords, j))

(***************************************************************************)
(* Records.  Adzuna is the only adapter that sets source_job_id, always    *)
(* to "adzuna_<id>" (adapters/adzuna.py:257); Jooble and CareerJet leave   *)
(* it None.  title and company are stored trimmed by the model validator,  *)
(* location is stored as the provider gave it.                             *)
(***************************************************************************)
JobA1 == ScrapedJob(<<"A","r","b">>, <<"x">>, <<"C","o">>, <<"N","Y">>, "adzuna_1")
JobA1Edited == ScrapedJob(<<"B","i","m">>, <<"x">>, <<"C","o">>, <<"N","Y">>, "adzuna_1")
JobA1Moved == ScrapedJob(<<"A","r","b">>, <<"x">>, <<"C","x">>, <<"N","Y">>, "adzuna_1")
JobA2 == ScrapedJob(<<"A","r","b">>, <<"x">>, <<"C","o">>, <<"N","Y">>, "adzuna_2")
JobJ1 == ScrapedJob(<<"A","R","B">>, <<"x">>, <<"c","o">>, <<" ","n","y","\n">>, None)
JobJ2 == ScrapedJob(<<"A","r","b">>, <<"x">>, <<"C","x">>, <<"N","Y">>, None)

JobChef == ScrapedJob(<<"C","h","e","f">>, <<"x">>, <<"C","o">>, <<"N","Y">>, "adzuna_3")
JobOps == ScrapedJob(<<"D","e","v","O","p","s">>, <<"b","i","m">>, <<"C","o">>, <<"N","Y">>, None)

DedupJobs == {JobA1, JobA1Edited, JobA1Moved, JobA2, JobJ1, JobJ2}
BatchJobs == {JobA1, JobJ1}

\* The source a record is marked under: the source_name of the adapter
\* that produced it.
SourceOf(job) == IF job.source_job_id = None THEN "jooble" ELSE "adzuna"

\* Sequences over S of length at most n.
SeqsUpTo(S, n) == UNION {[1..k -> S] : k \in 0..n}

VARIABLES
  pc,            \* position of the running program
  store,         \* the seen_jobs table of the dedup cache file
  now,           \* int(time.time())
  lastCall,      \* the last direct call of a function and what it returned
  everMarked,    \* every job passed to mark_seen by direct calls
  cfg,           \* config.API_URL and config.API_TOKEN
  opts,          \* the command-line options of this process
  run,           \* pipeline runs started so far
  exitStatus,    \* how the process ended: "running", "ok", "exit1", "raised"
  caller,        \* who called run_adapter: "all" (_run_all_sources) or "source" (main)
  ai,            \* index of the current adapter in ADAPTERS
  adapter,       \* source_name of the current adapter
  total,         \* the run total of _run_all_sources
  jobs,          \* run_adapter: the fetched jobs
  filtered_jobs, \* run_adapter: the jobs the keyword filter kept
  new_jobs,      \* run_adapter: the jobs filter_new kept
  result,        \* the dict the last run_adapter / ingest_in_batches returned
  mi,            \* mark_batch_seen: index of the next job to mark
  ing,           \* the frame of ingest_in_batches
  calls,         \* the ingest_batch calls of the current ingest_in_batches
  markedLog,     \* the jobs marked seen by the current provider run
  provLog,       \* how each provider of the current all-providers run ended
                 \* and the records it handed to delivery
  ev,            \* what this process has done so far
  runStore,      \* the store as the current provider run found it
  http,          \* the last failed attempt of the network call in progress
  fx,            \* the frame of an adapter's fetch_jobs
  fetchLog,      \* the page fetches of the market being fetched
  rc             \* a direct _resolve_countries call and what it returned

storeVars == <<store, now>>
apiVars == <<lastCall, everMarked>>
procVars == <<cfg, opts, run, caller>>
raVars == <<jobs, filtered_jobs, new_jobs, mi>>
ingVars == <<ing, calls>>
ghostVars == <<markedLog, ev, runStore>>
mainVars == <<cfg, opts, run, exitStatus, caller, ai, adapter, total, jobs,
              filtered_jobs, new_jobs, result, mi, markedLog, provLog, ev,
              runStore>>
fetchVars == <<fx, fetchLog, rc>>
vars == <<pc, store, now, lastCall, everMarked, cfg, opts, run, exitStatus,
          caller, ai, adapter, total, jobs, filtered_jobs, new_jobs, result,
          mi, ing, calls, markedLog, provLog, ev, runStore, http, fx,
          fetchLog, rc>>

NoCall == [op |-> "none", args |-> <<>>, job |-> None, jobs |-> <<>>,
           result |-> FALSE, out |-> <<>>, n |-> 0, before |-> {}]

Zero == [accepted |-> 0, duplicates |-> 0, errors |-> 0, filtered |-> 0,
         fetched |-> 0]

NoOpts == [fetch_all |-> FALSE, source |-> None, schedule |-> FALSE,
           cleanup |-> FALSE]
NoFrame == [jobs |-> <<>>, source |-> None, batch_size |-> 1, i |-> 0,
            attempts |-> 0, total_accepted |-> 0, total_duplicates |-> 0,
            total_errors |-> 0, ret |-> "none"]
NoEvents == [constructed |-> {}, opened |-> FALSE, requested |-> FALSE,
             fetched |-> FALSE, storeAtStart |-> {}]

NoHttp == [callee |-> "none", attempt_number |-> 0, outcome |-> "none",
           retry_after |-> "absent", slept |-> 0, state |-> "idle"]
NoFetch == [adapter |-> None, credentials |-> <<>>, max_results |-> 0,
            country |-> <<>>, countries |-> <<>>, ci |-> 0, page |-> 0,
            per_page |-> 0, location |-> "", where |-> "",
            jobs |-> <<>>, all_jobs |-> <<>>, attempts |-> 0,
            state |-> "none", returned |-> <<>>]
NoResolve == [entries |-> <<>>, country |-> <<>>, result |-> <<>>,
              called |-> FALSE]

\* No network call in progress and no adapter fetching, for the harnesses
\* that do not fetch.
FetchIdle ==
  /\ fx = NoFetch
  /\ fetchLog = <<>>
  /\ rc = NoResolve

\* The variables of main.py at rest, for the harnesses that do not run it.
MainIdle ==
  /\ cfg = [API_URL |-> "http://localhost", API_TOKEN |-> "token"]
  /\ opts = NoOpts
  /\ run = 0
  /\ exitStatus = "running"
  /\ caller = "none"
  /\ ai = 0
  /\ adapter = None
  /\ total = Zero
  /\ jobs = <<>>
  /\ filtered_jobs = <<>>
  /\ new_jobs = <<>>
  /\ result = Zero
  /\ mi = 0
  /\ markedLog = <<>>
  /\ provLog = <<>>
  /\ ev = NoEvents
  /\ runStore = {}

(***************************************************************************)
(* The DedupCache API called directly, as tests/test_dedup.py does.        *)
(***************************************************************************)
DedupInit ==
  /\ pc = "dedup_api"
  /\ store = {}
  /\ now = 0
  /\ lastCall = NoCall
  /\ everMarked = {}
  /\ ing = NoFrame
  /\ calls = <<>>
  /\ MainIdle
  /\ http = NoHttp
  /\ FetchIdle

DedupIsSeen ==
  /\ pc = "dedup_api"
  /\ \E j \in DedupJobs :
       lastCall' = [NoCall EXCEPT !.op = "is_seen", !.job = j,
                                  !.result = is_seen(store, j),
                                  !.before = store]
  /\ UNCHANGED <<pc, store, now, everMarked, mainVars, ingVars, http, fetchVars>>

DedupMarkSeen ==
  /\ pc = "dedup_api"
  /\ \E j \in DedupJobs :
       /\ store' = mark_seen(store, j, SourceOf(j), now)
       /\ everMarked' = everMarked \cup {j}
       /\ lastCall' = [NoCall EXCEPT !.op = "mark_seen", !.job = j]
  /\ UNCHANGED <<pc, now, mainVars, ingVars, http, fetchVars>>

DedupMarkBatchSeen ==
  /\ pc = "dedup_api"
  /\ \E js \in SeqsUpTo(BatchJobs, MaxBatchLen), s \in {"adzuna", "jooble"} :
       /\ store' = mark_batch_seen(store, js, s, now)
       /\ everMarked' = everMarked \cup {js[i] : i \in 1..Len(js)}
       /\ lastCall' = [NoCall EXCEPT !.op = "mark_batch_seen", !.jobs = js]
  /\ UNCHANGED <<pc, now, mainVars, ingVars, http, fetchVars>>

DedupFilterNew ==
  /\ pc = "dedup_api"
  /\ \E js \in SeqsUpTo(BatchJobs, MaxBatchLen) :
       lastCall' = [NoCall EXCEPT !.op = "filter_new", !.jobs = js,
                                  !.out = filter_new(store, js),
                                  !.before = store]
  /\ UNCHANGED <<pc, store, now, everMarked, mainVars, ingVars, http, fetchVars>>

DedupCount ==
  /\ pc = "dedup_api"
  /\ lastCall' = [NoCall EXCEPT !.op = "count", !.n = count(store),
                                !.before = store]
  /\ UNCHANGED <<pc, store, now, everMarked, mainVars, ingVars, http, fetchVars>>

DedupNext ==
  \/ DedupIsSeen
  \/ DedupMarkSeen
  \/ DedupMarkBatchSeen
  \/ DedupFilterNew
  \/ DedupCount

SpecDedup == DedupInit /\ [][DedupNext]_vars

(***************************************************************************)
(* IngestClient (client/ingest_client.py).                                 *)
(***************************************************************************)
MAX_ATTEMPTS == 3

\* wait_exponential(multiplier=1, min=2, max=60) of the delivery client and
\* wait_exponential(multiplier=1, min=2, max=30) of the adapters.
WAIT_MULTIPLIER == 1
WAIT_MIN == 2
WAIT_MAX_INGEST == 60
WAIT_MAX_FETCH == 30

\* int(response.headers.get("Retry-After", "60"))
DEFAULT_RETRY_AFTER == 60

\* The Retry-After header of a 429 response: absent, or seconds.
RetryAfterHeaders == {"absent", "5"}

retry_after(h) ==
  CASE h = "absent" -> DEFAULT_RETRY_AFTER
    [] h = "5" -> 5

RECURSIVE Pow2(_)
Pow2(n) == IF n = 0 THEN 1 ELSE 2 * Pow2(n - 1)

Max(a, b) == IF a > b THEN a ELSE b

Min(a, b) == IF a < b THEN a ELSE b

\* How one HTTP POST of ingest_batch can end: a JSON body of counts, or
\* httpx.ConnectError, httpx.TimeoutException, a 429 (raised as
\* TimeoutException), another error status (raise_for_status), or a body
\* that response.json() cannot decode.
Failures == {"connect_error", "timeout", "rate_limited", "http_error", "bad_body"}

stop_after_attempt_Four(attempt_number) == attempt_number >= MAX_ATTEMPTS + 1

\* stop=stop_after_attempt(3): no further attempt after attempt_number.
stop_after_attempt(attempt_number) == attempt_number >= MAX_ATTEMPTS

\* retry_if_exception_type((httpx.ConnectError, httpx.TimeoutException))
Retryable(o) == o \in {"connect_error", "timeout", "rate_limited"}

\* tenacity's wait_exponential: the seconds slept after the failed attempt
\* attempt_number, whatever the failure was: multiplier * 2^(n - 1) held
\* between min and max.  The Retry-After value the code reads is only
\* logged.
wait_exponential(wait_max, attempt_number, o, h) ==
  Max(WAIT_MIN, Min(WAIT_MULTIPLIER * Pow2(attempt_number - 1), wait_max))

\* The header that comes with an outcome: only a 429 carries Retry-After.
HeadersOf(o) == IF o = "rate_limited" THEN RetryAfterHeaders ELSE {"absent"}

\* The retry state after attempt n of callee ended with outcome o.
Attempt(callee, n, o, h, slept, state) ==
  [callee |-> callee, attempt_number |-> n, outcome |-> o, retry_after |-> h,
   slept |-> slept, state |-> state]

\* The batch response of the ingest API for a chunk of n jobs.
ResponseBodies(n) ==
  {[accepted |-> a, duplicates |-> d, errors |-> n - a - d] :
     a \in 0..n, d \in 0..n} \cap
  [accepted : 0..n, duplicates : 0..n, errors : 0..n]

Batch_FromStart(f) == SubSeq(f.jobs, 1, Min(f.batch_size, Len(f.jobs)))

\* batch = jobs[i : i + batch_size]
Batch(f) == SubSeq(f.jobs, f.i + 1, Min(f.i + f.batch_size, Len(f.jobs)))

failed_chunk_errors_One(batch) == 1

\* except Exception: total_errors += len(batch)
failed_chunk_errors(batch) == Len(batch)

\* The frame of a call ingest_in_batches(source, jobs, batch_size).
Frame(source, js, batch_size, ret) ==
  [jobs |-> js, source |-> source, batch_size |-> batch_size, i |-> 0,
   attempts |-> 0, total_accepted |-> 0, total_duplicates |-> 0,
   total_errors |-> 0, ret |-> ret]

\* One HTTP attempt of ingest_batch for the current chunk, answered.
IngestAttemptOk ==
  /\ pc = "ingest_loop"
  /\ ing.i < Len(ing.jobs)
  /\ \E body \in ResponseBodies(Len(Batch(ing))) :
       /\ ing' = [ing EXCEPT
                    !.total_accepted = @ + body.accepted,
                    !.total_duplicates = @ + body.duplicates,
                    !.total_errors = @ + body.errors,
                    !.attempts = 0,
                    !.i = @ + ing.batch_size]
       /\ calls' = Append(calls, [chunk |-> Batch(ing), ok |-> TRUE,
                                   body |-> body])
  /\ http' = NoHttp
  /\ ev' = [ev EXCEPT !.requested = TRUE]
  /\ UNCHANGED <<pc, storeVars, apiVars, fetchVars, procVars, exitStatus, ai, adapter,
                 total, raVars, result, markedLog, provLog, runStore>>

\* One HTTP attempt that fails with a retryable error while attempts are
\* left: tenacity waits and calls ingest_batch again.
IngestAttemptRetry ==
  /\ pc = "ingest_loop"
  /\ ing.i < Len(ing.jobs)
  /\ ~stop_after_attempt(ing.attempts + 1)
  /\ \E o \in Failures :
       /\ Retryable(o)
       /\ \E h \in HeadersOf(o) :
            http' = Attempt("ingest_batch", ing.attempts + 1, o, h,
                            wait_exponential(WAIT_MAX_INGEST,
                                             ing.attempts + 1, o, h),
                            "retrying")
  /\ ing' = [ing EXCEPT !.attempts = @ + 1]
  /\ ev' = [ev EXCEPT !.requested = TRUE]
  /\ UNCHANGED <<pc, calls, storeVars, apiVars, fetchVars, procVars, exitStatus, ai,
                 adapter, total, raVars, result, markedLog, provLog, runStore>>

\* One HTTP attempt that fails for good (not retryable, or the last
\* attempt): ingest_batch raises, ingest_in_batches counts the chunk as
\* errors and goes on to the next chunk.
IngestAttemptFail ==
  /\ pc = "ingest_loop"
  /\ ing.i < Len(ing.jobs)
  /\ \E o \in Failures :
       /\ ~Retryable(o) \/ stop_after_attempt(ing.attempts + 1)
       /\ \E h \in HeadersOf(o) :
            http' = Attempt("ingest_batch", ing.attempts + 1, o, h, 0,
                            "raised")
       /\ ing' = [ing EXCEPT
                    !.total_errors = @ + failed_chunk_errors(Batch(ing)),
                    !.attempts = 0,
                    !.i = @ + ing.batch_size]
       /\ calls' = Append(calls, [chunk |-> Batch(ing), ok |-> FALSE,
                                   body |-> [accepted |-> 0, duplicates |-> 0,
                                             errors |-> 0]])
  /\ ev' = [ev EXCEPT !.requested = TRUE]
  /\ UNCHANGED <<pc, storeVars, apiVars, fetchVars, procVars, exitStatus, ai, adapter,
                 total, raVars, result, markedLog, provLog, runStore>>

\* The loop is over: return the combined counts to the caller.
IngestReturn ==
  /\ pc = "ingest_loop"
  /\ ing.i >= Len(ing.jobs)
  /\ result' = [accepted |-> ing.total_accepted,
                duplicates |-> ing.total_duplicates,
                errors |-> ing.total_errors]
  /\ pc' = ing.ret
  /\ http' = NoHttp
  /\ UNCHANGED <<ingVars, storeVars, apiVars, fetchVars, procVars, exitStatus, ai,
                 adapter, total, raVars, ghostVars, provLog>>

(***************************************************************************)
(* ingest_in_batches called directly, as tests/test_ingest_client.py does. *)
(***************************************************************************)
BatchInput == <<JobA1, JobA1Edited, JobJ1, JobJ2, JobA2, JobChef>>

BatchInit ==
  /\ pc = "ingest_loop"
  /\ \E n \in 0..MaxJobs, bs \in 1..MaxBatchSize :
       ing = Frame("adzuna", SubSeq(BatchInput, 1, Min(n, Len(BatchInput))),
                   bs, "batch_done")
  /\ calls = <<>>
  /\ store = {}
  /\ now = 0
  /\ lastCall = NoCall
  /\ everMarked = {}
  /\ MainIdle
  /\ http = NoHttp
  /\ FetchIdle

BatchNext ==
  \/ IngestAttemptOk
  \/ IngestAttemptRetry
  \/ IngestAttemptFail
  \/ IngestReturn

SpecBatch == BatchInit /\ [][BatchNext]_vars

(***************************************************************************)
(* ingest_single called directly, and ingest_in_batches as above.          *)
(***************************************************************************)
SingleInit ==
  /\ pc = "single_call"
  /\ ing = NoFrame
  /\ calls = <<>>
  /\ store = {}
  /\ now = 0
  /\ lastCall = NoCall
  /\ everMarked = {}
  /\ MainIdle
  /\ http = NoHttp
  /\ FetchIdle

\* One HTTP attempt of ingest_single: it returns the response, or fails
\* and tenacity calls it again, or fails for good and the call raises.
IngestSingleAttempt ==
  /\ pc = "single_call"
  /\ LET n == http.attempt_number + 1
     IN  \E o \in {"ok"} \cup Failures :
           \E h \in HeadersOf(o) :
             IF o = "ok"
             THEN /\ pc' = "single_returned"
                  /\ http' = Attempt("ingest_single", n, o, h, 0, "returned")
             ELSE IF Retryable(o) /\ ~stop_after_attempt(n)
             THEN /\ pc' = pc
                  /\ http' = Attempt("ingest_single", n, o, h,
                                     wait_exponential(WAIT_MAX_INGEST, n, o,
                                                      h),
                                     "retrying")
             ELSE /\ pc' = "single_raised"
                  /\ http' = Attempt("ingest_single", n, o, h, 0, "raised")
  /\ UNCHANGED <<storeVars, apiVars, fetchVars, mainVars, ingVars>>

SendInit == BatchInit \/ SingleInit

SendNext ==
  \/ BatchNext
  \/ IngestSingleAttempt

SpecSend == SendInit /\ [][SendNext]_vars

(***************************************************************************)
(* AdzunaAdapter: the markets (adapters/adzuna.py).                        *)
(***************************************************************************)
\* list(ADZUNA_COUNTRIES.keys())
ADZUNA_COUNTRIES ==
  <<<<"g","b">>, <<"u","s">>, <<"a","u">>, <<"c","a">>, <<"d","e">>,
    <<"f","r">>, <<"i","n">>, <<"n","l">>, <<"n","z">>, <<"s","g">>,
    <<"z","a">>, <<"a","t">>, <<"b","r">>, <<"i","t">>, <<"p","l">>>>

Range(f) == {f[i] : i \in DOMAIN f}

\* str.split(","): the pieces between the commas, empty pieces included.
RECURSIVE split(_)
split(s) ==
  IF \E i \in 1..Len(s) : s[i] = ","
  THEN LET i == CHOOSE k \in 1..Len(s) :
                  s[k] = "," /\ \A j \in 1..(k - 1) : s[j] # ","
       IN  <<SubSeq(s, 1, i - 1)>> \o split(SubSeq(s, i + 1, Len(s)))
  ELSE <<s>>

_resolve_countries_NoFallback(country) ==
  LET parts == split(country)
      codes == [k \in 1..Len(parts) |-> lower(strip(parts[k]))]
  IN  SelectSeq(codes, LAMBDA c : c \in Range(ADZUNA_COUNTRIES))

\* AdzunaAdapter._resolve_countries
_resolve_countries(country) ==
  IF lower(country) = <<"a","l","l">>
  THEN ADZUNA_COUNTRIES
  ELSE LET parts == split(country)
           codes == [k \in 1..Len(parts) |-> lower(strip(parts[k]))]
           valid == SelectSeq(codes,
                              LAMBDA c : c \in Range(ADZUNA_COUNTRIES))
       IN  IF valid = <<>> THEN ADZUNA_COUNTRIES ELSE valid

(***************************************************************************)
(* main.py: the command-line entry point and the orchestration.            *)
(***************************************************************************)
ADAPTERS == <<"adzuna", "careerjet", "jooble">>

\* The attributes class Config defines (config.py).
ConfigAttrs ==
  {"API_URL", "API_TOKEN", "ADZUNA_APP_ID", "ADZUNA_APP_KEY",
   "CAREERJET_AFFID", "JOOBLE_API_KEY", "FETCH_INTERVAL_HOURS",
   "MAX_JOBS_PER_FETCH", "LOG_LEVEL"}

\* The config attributes an adapter's __init__ reads when it is called
\* with no arguments, as main.py calls it.
ConstructorReads(name) ==
  CASE name = "adzuna" -> {"ADZUNA_APP_ID", "ADZUNA_APP_KEY"}
    [] name = "careerjet" -> {"CAREERJET_API_KEY"}
    [] name = "jooble" -> {"JOOBLE_API_KEY"}

\* adapter_class(): reading an attribute Config does not define raises
\* AttributeError.
adapter_class_raises(name) == ~(ConstructorReads(name) \subseteq ConfigAttrs)

\* The records an adapter's fetch_jobs can return.
JobsOf(name) ==
  CASE name = "adzuna" -> {JobA1, JobChef}
    [] name = "careerjet" -> {JobJ2}
    [] name = "jooble" -> {JobJ1, JobJ2}

\* An argument of type `List[str] | None`: NoArg is None, Arg(x) is the
\* list x.
NoArg == <<>>
Arg(x) == <<x>>

\* `x or default` for such an argument: None and the empty list are falsy.
OrList(x, default) == IF x = NoArg \/ x[1] = <<>> THEN default ELSE x[1]

\* KeywordFilter(include_keywords, exclude_keywords)
KeywordFilter(include_keywords, exclude_keywords) ==
  [include_keywords |-> OrList(include_keywords, ARCHITECTURE_KEYWORDS),
   exclude_keywords |-> OrList(exclude_keywords, EXCLUDE_KEYWORDS)]

\* main() builds the filter with the default vocabulary.
keyword_filter == KeywordFilter(NoArg, NoArg)

config_missing_Both(c) == c.API_URL = "" /\ c.API_TOKEN = ""

\* not config.API_URL or not config.API_TOKEN
config_missing(c) == c.API_URL = "" \/ c.API_TOKEN = ""

\* total[key] += result.get(key, 0) for every key of total
AddCounters(t, r) ==
  [accepted |-> t.accepted + r.accepted,
   duplicates |-> t.duplicates + r.duplicates,
   errors |-> t.errors + r.errors,
   filtered |-> t.filtered + r.filtered,
   fetched |-> t.fetched + r.fetched]

except_handler_NoCount(t) == t

\* except Exception in _run_all_sources: total["errors"] += 1
except_handler(t) == [t EXCEPT !.errors = @ + 1]

Configs ==
  {[API_URL |-> u, API_TOKEN |-> t] :
     u \in {"", "http://localhost"}, t \in {"", "token"}}

CliOptions ==
  {NoOpts,
   [NoOpts EXCEPT !.fetch_all = TRUE],
   [NoOpts EXCEPT !.source = "adzuna"],
   [NoOpts EXCEPT !.source = "careerjet"],
   [NoOpts EXCEPT !.source = "jooble"],
   [NoOpts EXCEPT !.schedule = TRUE],
   [NoOpts EXCEPT !.cleanup = TRUE],
   [NoOpts EXCEPT !.cleanup = TRUE, !.fetch_all = TRUE]}

\* A process is started: python main.py <options>.
MainInit ==
  /\ pc = "main"
  /\ cfg \in Configs
  /\ opts \in CliOptions
  /\ run = 1
  /\ exitStatus = "running"
  /\ caller = "none"
  /\ ai = 0
  /\ adapter = None
  /\ total = Zero
  /\ jobs = <<>>
  /\ filtered_jobs = <<>>
  /\ new_jobs = <<>>
  /\ result = Zero
  /\ mi = 0
  /\ markedLog = <<>>
  /\ provLog = <<>>
  /\ ev = NoEvents
  /\ runStore = {}
  /\ ing = NoFrame
  /\ calls = <<>>
  /\ store = {}
  /\ now = 0
  /\ lastCall = NoCall
  /\ everMarked = {}
  /\ http = NoHttp
  /\ FetchIdle

\* run_adapter returns res to its caller: _run_all_sources adds it to the
\* total and goes on to the next adapter, main ignores it and ends.
Return(res) ==
  IF caller = "all"
  THEN /\ total' = AddCounters(total, res)
       /\ ai' = ai + 1
       /\ pc' = "all_next"
       /\ provLog' = Append(provLog, [name |-> adapter, outcome |-> "returned",
                                      counters |-> res, sent |-> new_jobs])
       /\ UNCHANGED exitStatus
  ELSE /\ pc' = "exit"
       /\ exitStatus' = "ok"
       /\ UNCHANGED <<total, ai, provLog>>

\* An exception leaves adapter_class() or run_adapter: _run_all_sources
\* catches it and goes on to the next adapter, main lets it end the process.
Raise ==
  IF caller = "all"
  THEN /\ total' = except_handler(total)
       /\ ai' = ai + 1
       /\ pc' = "all_next"
       /\ provLog' = Append(provLog, [name |-> adapter, outcome |-> "raised",
                                      counters |-> Zero, sent |-> new_jobs])
       /\ UNCHANGED exitStatus
  ELSE /\ pc' = "exit"
       /\ exitStatus' = "raised"
       /\ UNCHANGED <<total, ai, provLog>>

\* main: validate the configuration.
MainValidate ==
  /\ pc = "main"
  /\ IF config_missing(cfg)
     THEN /\ pc' = "exit"
          /\ exitStatus' = "exit1"
     ELSE /\ pc' = "main_init"
          /\ UNCHANGED exitStatus
  /\ UNCHANGED <<storeVars, apiVars, http, fetchVars, procVars, ai, adapter, total, raVars,
                 result, ingVars, ghostVars, provLog>>

\* main: IngestClient(), KeywordFilter(), DedupCache() (which opens the
\* cache file and creates the table if it is not there).
MainComponents ==
  /\ pc = "main_init"
  /\ ev' = [ev EXCEPT !.opened = TRUE]
  /\ pc' = "main_dispatch"
  /\ UNCHANGED <<storeVars, apiVars, http, fetchVars, procVars, exitStatus, ai, adapter, total,
                 raVars, result, ingVars, markedLog, provLog, runStore>>

\* main --cleanup
MainCleanup ==
  /\ pc = "main_dispatch"
  /\ opts.cleanup
  /\ store' = cleanup_expired(store, now)
  /\ pc' = "exit"
  /\ exitStatus' = "ok"
  /\ UNCHANGED <<now, apiVars, http, fetchVars, procVars, ai, adapter, total, raVars, result,
                 ingVars, ghostVars, provLog>>

\* main --schedule and main --all: _run_all_sources
MainAll ==
  /\ pc = "main_dispatch"
  /\ ~opts.cleanup
  /\ opts.schedule \/ opts.fetch_all
  /\ caller' = "all"
  /\ pc' = "all_start"
  /\ UNCHANGED <<storeVars, apiVars, http, fetchVars, cfg, opts, run, exitStatus, ai, adapter,
                 total, raVars, result, ingVars, ghostVars, provLog>>

\* main --source NAME
MainSource ==
  /\ pc = "main_dispatch"
  /\ ~opts.cleanup /\ ~opts.schedule /\ ~opts.fetch_all
  /\ opts.source # None
  /\ caller' = "source"
  /\ adapter' = opts.source
  /\ pc' = "construct"
  /\ UNCHANGED <<storeVars, apiVars, http, fetchVars, cfg, opts, run, exitStatus, ai, total,
                 raVars, result, ingVars, ghostVars, provLog>>

\* main with neither --all nor --source: usage message, sys.exit(1)
MainUsage ==
  /\ pc = "main_dispatch"
  /\ ~opts.cleanup /\ ~opts.schedule /\ ~opts.fetch_all
  /\ opts.source = None
  /\ pc' = "exit"
  /\ exitStatus' = "exit1"
  /\ UNCHANGED <<storeVars, apiVars, http, fetchVars, procVars, ai, adapter, total, raVars,
                 result, ingVars, ghostVars, provLog>>

\* _run_all_sources: total = zeros, start the loop over ADAPTERS.
RunAllStart ==
  /\ pc = "all_start"
  /\ total' = Zero
  /\ ai' = 1
  /\ provLog' = <<>>
  /\ pc' = "all_next"
  /\ UNCHANGED <<storeVars, apiVars, http, fetchVars, procVars, exitStatus, adapter, raVars,
                 result, ingVars, ghostVars>>

\* _run_all_sources: the next adapter of the loop.
RunAllNext ==
  /\ pc = "all_next"
  /\ ai <= Len(ADAPTERS)
  /\ adapter' = ADAPTERS[ai]
  /\ pc' = "construct"
  /\ UNCHANGED <<storeVars, apiVars, http, fetchVars, procVars, exitStatus, ai, total, raVars,
                 result, ingVars, ghostVars, provLog>>

\* _run_all_sources: the loop is over; log the total and return.  main
\* ends, or under --schedule waits for the next run.
RunAllDone ==
  /\ pc = "all_next"
  /\ ai > Len(ADAPTERS)
  /\ IF opts.schedule
     THEN /\ pc' = "sched_wait"
          /\ UNCHANGED exitStatus
     ELSE /\ pc' = "exit"
          /\ exitStatus' = "ok"
  /\ UNCHANGED <<storeVars, apiVars, http, fetchVars, procVars, ai, adapter, total, raVars,
                 result, ingVars, ghostVars, provLog>>

\* main --schedule: FETCH_INTERVAL_HOURS later the scheduler runs
\* _run_all_sources again.
ScheduleWait ==
  /\ pc = "sched_wait"
  /\ run < MaxRuns
  /\ run' = run + 1
  /\ now' = now + FETCH_INTERVAL_HOURS * SECONDS_PER_HOUR
  /\ pc' = "all_start"
  /\ UNCHANGED <<store, apiVars, http, fetchVars, cfg, opts, caller, exitStatus, ai, adapter,
                 total, raVars, result, ingVars, ghostVars, provLog>>

\* adapter = adapter_class(): the start of a provider run.
Construct ==
  /\ pc = "construct"
  /\ ev' = [ev EXCEPT !.constructed = @ \cup {adapter}]
  /\ markedLog' = <<>>
  /\ runStore' = store
  /\ jobs' = <<>>
  /\ filtered_jobs' = <<>>
  /\ new_jobs' = <<>>
  /\ mi' = 0
  /\ ing' = NoFrame
  /\ calls' = <<>>
  /\ IF adapter_class_raises(adapter)
     THEN Raise
     ELSE /\ pc' = "fetch"
          /\ UNCHANGED <<total, ai, provLog, exitStatus>>
  /\ UNCHANGED <<storeVars, apiVars, http, fetchVars, procVars, adapter, result>>

\* run_adapter: adapter.fetch_jobs raises; the exception is caught and
\* reported as one error.
RunAdapterFetchRaises ==
  /\ pc = "fetch"
  /\ ev' = [ev EXCEPT !.fetched = TRUE]
  /\ result' = [Zero EXCEPT !.errors = 1]
  /\ Return(result')
  /\ UNCHANGED <<storeVars, apiVars, http, fetchVars, procVars, adapter, raVars, ingVars,
                 markedLog, runStore>>

\* run_adapter: adapter.fetch_jobs returns; nothing fetched ends the run
\* with zero counters.
RunAdapterFetch ==
  /\ pc = "fetch"
  /\ ev' = [ev EXCEPT !.fetched = TRUE]
  /\ \E js \in SeqsUpTo(JobsOf(adapter), MaxFetch) :
       /\ jobs' = js
       /\ IF js = <<>>
          THEN /\ result' = Zero
               /\ Return(result')
          ELSE /\ pc' = "filter"
               /\ UNCHANGED <<result, total, ai, provLog, exitStatus>>
  /\ UNCHANGED <<storeVars, apiVars, http, fetchVars, procVars, adapter, filtered_jobs,
                 new_jobs, mi, ingVars, markedLog, runStore>>

\* run_adapter: keyword_filter.filter_jobs(jobs)
RunAdapterFilter ==
  /\ pc = "filter"
  /\ filtered_jobs' = filter_jobs(keyword_filter.include_keywords,
                                  keyword_filter.exclude_keywords, jobs)
  /\ pc' = "dedup"
  /\ UNCHANGED <<storeVars, apiVars, http, fetchVars, procVars, exitStatus, ai, adapter, total,
                 jobs, new_jobs, mi, result, ingVars, ghostVars, provLog>>

\* the filtered set not counted as duplicates
NoNewJobs_ZeroDuplicates ==
  [accepted |-> 0, duplicates |-> 0, errors |-> 0,
   filtered |-> Len(jobs) - Len(filtered_jobs), fetched |-> Len(jobs)]

\* The counters run_adapter returns when filter_new leaves nothing.
NoNewJobs ==
  [accepted |-> 0, duplicates |-> Len(filtered_jobs), errors |-> 0,
   filtered |-> Len(jobs) - Len(filtered_jobs), fetched |-> Len(jobs)]

\* run_adapter is left, by return or by an exception: its locals are gone.
EndRunAdapter ==
  /\ jobs' = <<>>
  /\ filtered_jobs' = <<>>
  /\ new_jobs' = <<>>
  /\ mi' = 0
  /\ ing' = NoFrame
  /\ calls' = <<>>
  /\ markedLog' = <<>>
  /\ runStore' = {}

\* run_adapter: dedup_cache.filter_new raises (sqlite3.Error).
RunAdapterDedupRaises ==
  /\ pc = "dedup"
  /\ Raise
  /\ EndRunAdapter
  /\ UNCHANGED <<storeVars, apiVars, http, fetchVars, procVars, adapter,
                 result, ev>>

\* run_adapter: dedup_cache.filter_new(filtered_jobs); nothing new ends
\* the run, otherwise ingest_in_batches(source, new_jobs, batch_size=50).
RunAdapterDedup ==
  /\ pc = "dedup"
  /\ IF filter_new(store, filtered_jobs) = <<>>
     THEN /\ result' = NoNewJobs
          /\ Return(result')
          /\ EndRunAdapter
     ELSE /\ new_jobs' = filter_new(store, filtered_jobs)
          /\ ing' = Frame(adapter, new_jobs', BATCH_SIZE, "mark")
          /\ calls' = <<>>
          /\ mi' = 1
          /\ pc' = "ingest_loop"
          /\ UNCHANGED <<result, total, ai, provLog, exitStatus, jobs,
                         filtered_jobs, markedLog, runStore>>
  /\ UNCHANGED <<storeVars, apiVars, http, fetchVars, procVars, adapter, ev>>

jobs_to_mark_Filtered == filtered_jobs

\* mark_batch_seen left out
jobs_to_mark_Nothing == <<>>

\* dedup_cache.mark_batch_seen(new_jobs, source): the jobs it is given.
jobs_to_mark == new_jobs

\* mark_batch_seen: mark_seen raises (sqlite3.Error) at the next job.
RunAdapterMarkRaises ==
  /\ pc = "mark"
  /\ mi <= Len(jobs_to_mark)
  /\ Raise
  /\ EndRunAdapter
  /\ UNCHANGED <<storeVars, apiVars, http, fetchVars, procVars, adapter,
                 result, ev>>

\* mark_batch_seen: mark_seen(job, source) for the next job of new_jobs.
RunAdapterMark ==
  /\ pc = "mark"
  /\ mi <= Len(jobs_to_mark)
  /\ store' = mark_seen(store, jobs_to_mark[mi], adapter, now)
  /\ markedLog' = Append(markedLog, jobs_to_mark[mi])
  /\ mi' = mi + 1
  /\ UNCHANGED <<pc, now, apiVars, http, fetchVars, procVars, exitStatus, ai, adapter, total,
                 jobs, filtered_jobs, new_jobs, result, ingVars, provLog, ev,
                 runStore>>

\* run_adapter: add filtered and fetched to the result and return it.
RunAdapterReturn ==
  /\ pc = "mark"
  /\ mi > Len(jobs_to_mark)
  /\ result' = [accepted |-> result.accepted,
                duplicates |-> result.duplicates,
                errors |-> result.errors,
                filtered |-> Len(jobs) - Len(filtered_jobs),
                fetched |-> Len(jobs)]
  /\ Return(result')
  /\ EndRunAdapter
  /\ UNCHANGED <<storeVars, apiVars, http, fetchVars, procVars, adapter, ev>>

\* The process has ended; later the program is started again on the same
\* cache file.
Restart ==
  /\ pc = "exit"
  /\ run < MaxRuns
  /\ run' = run + 1
  /\ now' = now + FETCH_INTERVAL_HOURS * SECONDS_PER_HOUR
  /\ pc' = "start"
  /\ cfg' = [API_URL |-> "http://localhost", API_TOKEN |-> "token"]
  /\ opts' = NoOpts
  /\ exitStatus' = "running"
  /\ caller' = "none"
  /\ ai' = 0
  /\ adapter' = None
  /\ total' = Zero
  /\ jobs' = <<>>
  /\ filtered_jobs' = <<>>
  /\ new_jobs' = <<>>
  /\ result' = Zero
  /\ mi' = 0
  /\ markedLog' = <<>>
  /\ provLog' = <<>>
  /\ ev' = [NoEvents EXCEPT !.storeAtStart = store]
  /\ runStore' = {}
  /\ ing' = NoFrame
  /\ calls' = <<>>
  /\ UNCHANGED <<store, apiVars, http, fetchVars>>

\* python main.py <options>: the new process starts with the environment
\* and the command line it is given.
MainStart ==
  /\ pc = "start"
  /\ cfg' \in Configs
  /\ opts' \in CliOptions
  /\ pc' = "main"
  /\ UNCHANGED <<storeVars, apiVars, http, fetchVars, run, caller, exitStatus,
                 ai, adapter, total, raVars, result, ingVars, ghostVars,
                 provLog>>

Next ==
  \/ MainValidate
  \/ MainComponents
  \/ MainCleanup
  \/ MainAll
  \/ MainSource
  \/ MainUsage
  \/ RunAllStart
  \/ RunAllNext
  \/ RunAllDone
  \/ ScheduleWait
  \/ Construct
  \/ RunAdapterFetchRaises
  \/ RunAdapterFetch
  \/ RunAdapterFilter
  \/ RunAdapterDedupRaises
  \/ RunAdapterDedup
  \/ IngestAttemptOk
  \/ IngestAttemptRetry
  \/ IngestAttemptFail
  \/ IngestReturn
  \/ RunAdapterMarkRaises
  \/ RunAdapterMark
  \/ RunAdapterReturn
  \/ Restart
  \/ MainStart

Spec == MainInit /\ [][Next]_vars

(***************************************************************************)
(* The scheduler started on a store an earlier process left: the cache     *)
(* file outlives the process, and nothing bounds the time between the      *)
(* earlier process's mark_seen and this process's start.                   *)
(***************************************************************************)
\* Seconds since the earlier process marked JobA1.
StartTimes == {0, EXPIRY_SECONDS, EXPIRY_SECONDS + 1}

ExpiryInit ==
  /\ pc = "main"
  /\ cfg = [API_URL |-> "http://localhost", API_TOKEN |-> "token"]
  /\ opts = [NoOpts EXCEPT !.schedule = TRUE]
  /\ run = 1
  /\ exitStatus = "running"
  /\ caller = "none"
  /\ ai = 0
  /\ adapter = None
  /\ total = Zero
  /\ jobs = <<>>
  /\ filtered_jobs = <<>>
  /\ new_jobs = <<>>
  /\ result = Zero
  /\ mi = 0
  /\ markedLog = <<>>
  /\ provLog = <<>>
  /\ runStore = {}
  /\ ing = NoFrame
  /\ calls = <<>>
  /\ store = mark_seen({}, JobA1, "adzuna", 0)
  /\ ev = [NoEvents EXCEPT !.storeAtStart = store]
  /\ now \in StartTimes
  /\ lastCall = NoCall
  /\ everMarked = {}
  /\ http = NoHttp
  /\ FetchIdle

ExpiryNext ==
  \/ MainValidate
  \/ MainComponents
  \/ MainAll
  \/ RunAllStart
  \/ RunAllNext
  \/ RunAllDone
  \/ ScheduleWait
  \/ Construct
  \/ RunAdapterFetchRaises
  \/ RunAdapterFetch
  \/ RunAdapterFilter
  \/ RunAdapterDedupRaises
  \/ RunAdapterDedup
  \/ IngestAttemptOk
  \/ IngestAttemptRetry
  \/ IngestAttemptFail
  \/ IngestReturn
  \/ RunAdapterMarkRaises
  \/ RunAdapterMark
  \/ RunAdapterReturn

SpecExpiry == ExpiryInit /\ [][ExpiryNext]_vars

(***************************************************************************)
(* _resolve_countries called directly, as tests/test_adzuna_adapter.py     *)
(* does.                                                                   *)
(***************************************************************************)
\* The entries a --country option is made of.
SelectorEntries ==
  {<<"g","b">>,
   <<"u","s">>,
   <<" ","g","b"," ">>,
   <<" ","U","S"," ">>,
   <<"x","x">>,
   <<"y","y">>,
   <<>>,
   <<"a","l","l">>,
   <<"A","l","l">>}

\* ",".join(entries)
RECURSIVE Join(_)
Join(es) ==
  IF Len(es) = 0 THEN <<>>
  ELSE IF Len(es) = 1 THEN es[1]
  ELSE es[1] \o <<",">> \o Join(Tail(es))

ResolveInit ==
  /\ pc = "resolve"
  /\ \E k \in 1..MaxEntries :
       \E es \in [1..k -> SelectorEntries] :
         rc = [entries |-> es, country |-> Join(es), result |-> <<>>,
               called |-> FALSE]
  /\ fx = NoFetch
  /\ fetchLog = <<>>
  /\ http = NoHttp
  /\ ing = NoFrame
  /\ calls = <<>>
  /\ store = {}
  /\ now = 0
  /\ lastCall = NoCall
  /\ everMarked = {}
  /\ MainIdle

\* adapter._resolve_countries(country)
ResolveCountries ==
  /\ pc = "resolve"
  /\ rc' = [rc EXCEPT !.result = _resolve_countries(rc.country),
                       !.called = TRUE]
  /\ pc' = "resolved"
  /\ UNCHANGED <<storeVars, apiVars, http, fx, fetchLog, mainVars, ingVars>>

SpecResolve == ResolveInit /\ [][ResolveCountries]_vars

(***************************************************************************)
(* The adapters' fetch_jobs (adapters/adzuna.py, adapters/careerjet.py,    *)
(* adapters/jooble.py) called directly, as tests/test_adzuna_adapter.py    *)
(* and tests/test_adapters.py do.                                          *)
(***************************************************************************)
\* per_page = min(50, max_results) of Adzuna; MAX_PAGE_SIZE and MAX_PAGE of
\* CareerJet.
ADZUNA_PAGE_SIZE == 50
MAX_PAGE_SIZE == 100
MAX_PAGE == 10

\* The config attribute each credential parameter of __init__ falls back
\* to: `self.x = x or config.X`.
CredentialParams(name) ==
  CASE name = "adzuna" -> <<"ADZUNA_APP_ID", "ADZUNA_APP_KEY">>
    [] name = "careerjet" -> <<"CAREERJET_API_KEY">>
    [] name = "jooble" -> <<"JOOBLE_API_KEY">>

\* What reading an attribute class Config does not define gives.
AttributeError == "AttributeError"

\* `x or config.attr`, env being the values of the attributes Config
\* defines.
Or(x, attr, env) ==
  IF Truthy(x) THEN x
  ELSE IF attr \in ConfigAttrs THEN env[attr]
  ELSE AttributeError

\* The values __init__ stores for the arguments args.
Credentials(name, args, env) ==
  [k \in 1..Len(CredentialParams(name)) |->
     Or(args[k], CredentialParams(name)[k], env)]

\* `if not self.app_id or not self.app_key` / `if not self.api_key`
no_credentials(credentials) ==
  \E k \in 1..Len(credentials) : ~Truthy(credentials[k])

\* The --country options fetch_jobs is called with: one market, and two.
FetchSelectors ==
  {<<"g","b">>, <<"G","B",","," ","u","s">>}

\* The page size an adapter asks the provider for; Jooble asks for none.
per_page(name, max_results) ==
  CASE name = "adzuna" -> Min(ADZUNA_PAGE_SIZE, max_results)
    [] name = "careerjet" -> Min(MAX_PAGE_SIZE, max_results)
    [] name = "jooble" -> 0

\* `while len(jobs) < max_results` (`and page <= MAX_PAGE` in CareerJet)
LoopCond(f) ==
  /\ Len(f.jobs) < f.max_results
  /\ f.adapter = "careerjet" => f.page <= MAX_PAGE

\* `if len(results) < per_page: break`, which Jooble's loop does not have.
short_page_break(f, results) ==
  f.adapter # "jooble" /\ Len(results) < f.per_page

\* jobs[:n]
Take(s, n) == SubSeq(s, 1, Min(n, Len(s)))

\* The results of one page as the provider sends them: each parses into a
\* record ("good") or _parse_result returns None for it ("bad").  The
\* provider has MaxPages pages.
PageResults(page) ==
  IF page > MaxPages THEN {<<>>}
  ELSE SeqsUpTo({"good", "bad"}, MaxPageLen)

\* one result that does not parse loses the whole page
parse_results_AllOrNothing(results, cc, page, i) ==
  IF \E k \in i..Len(results) : results[k] # "good" THEN <<>>
  ELSE [k \in 1..(Len(results) - i + 1) |->
          [market |-> cc, page |-> page, index |-> i + k - 1]]

\* `for result in results: job = self._parse_result(result); if job:
\* jobs.append(job)`, from result i on.
\* A record is identified by its market, its page and its place among the
\* records of the page.
RECURSIVE parse_results(_, _, _, _)
parse_results(results, cc, page, i) ==
  IF i > Len(results) THEN <<>>
  ELSE (IF results[i] = "good"
        THEN <<[market |-> cc, page |-> page,
                index |-> Len(SelectSeq(SubSeq(results, 1, i),
                                        LAMBDA r : r = "good"))]>>
        ELSE <<>>) \o parse_results(results, cc, page, i + 1)

\* The loop of a market from its condition on: fetch the next page, or
\* (brk: after a break) leave the loop, add jobs[:max_results] to what
\* fetch_jobs returns and go on to the next market, or return.
RECURSIVE Advance(_, _)
Advance(f, brk) ==
  IF ~brk /\ LoopCond(f) THEN [f EXCEPT !.state = "paging"]
  ELSE LET all == f.all_jobs \o Take(f.jobs, f.max_results)
       IN  IF f.ci < Len(f.countries)
           THEN Advance([f EXCEPT !.all_jobs = all, !.ci = @ + 1,
                                  !.page = 1, !.jobs = <<>>], FALSE)
           ELSE [f EXCEPT !.all_jobs = all, !.returned = all,
                          !.state = "returned"]

on_page_error_Continue(f) == Advance([f EXCEPT !.page = @ + 1], FALSE)

on_page_error_Discard(f) == Advance([f EXCEPT !.jobs = <<>>], TRUE)

\* `except Exception as e: ...; break`
on_page_error(f) == Advance(f, TRUE)

\* How one HTTP request of _fetch_page can fail: httpx.ConnectError, a
\* timeout, a 429 or another error status (HTTPStatusError), or a body that
\* response.json() cannot decode.
\* retry_if_exception_type((httpx.HTTPStatusError, httpx.ConnectError))
FetchRetryable(o) == o \in {"connect_error", "rate_limited", "http_error"}

PcAfter(f) == IF f.state = "returned" THEN "fetch_done" ELSE "fetch_page"

\* The locations fetch_jobs is called with: none, and one.
FetchLocations == {"", "London"}

country_location_Always(location, countries) == location

\* `location=location if len(countries) == 1 else ""`: the location
\* fetch_jobs hands to _fetch_country.
country_location(location, countries) ==
  IF Len(countries) = 1 THEN location ELSE ""

\* `if location: params["where"] = location` (Adzuna; "location" in the
\* requests of CareerJet and Jooble): the location parameter of a page
\* request, None when the request has none.
request_location(location) == IF Truthy(location) THEN location ELSE None

\* The entry fetchLog keeps of a page fetch that ended.
PageFetch(f, ok, results, parsed) ==
  [ci |-> f.ci, page |-> f.page, per_page |-> f.per_page,
   location |-> request_location(f.where), ok |-> ok, n |-> Len(results),
   results |-> results, parsed |-> parsed]

\* fetchLog after a page fetch of the market fx.ci ended: the page fetches
\* of the market that f, the frame after it, is fetching.
Logged(f, entry) ==
  IF f.state = "paging" /\ f.ci # fx.ci THEN <<>>
  ELSE Append(fetchLog, entry)

FetchInit ==
  /\ pc = "fetch_construct"
  /\ \E name \in Range(ADAPTERS) :
       \E m \in 0..MaxResults :
         \E country \in IF name = "adzuna" THEN FetchSelectors ELSE {<<>>} :
           \E location \in FetchLocations :
             fx = [NoFetch EXCEPT !.adapter = name, !.max_results = m,
                                  !.country = country, !.location = location]
  /\ fetchLog = <<>>
  /\ rc = NoResolve
  /\ http = NoHttp
  /\ ing = NoFrame
  /\ calls = <<>>
  /\ store = {}
  /\ now = 0
  /\ lastCall = NoCall
  /\ everMarked = {}
  /\ MainIdle

\* adapter = Adapter(...): __init__
FetchConstruct ==
  /\ pc = "fetch_construct"
  /\ \E args \in [1..Len(CredentialParams(fx.adapter)) -> {None, "", "key"}] :
       \E env \in [Range(CredentialParams(fx.adapter)) \cap ConfigAttrs
                     -> {"", "key"}] :
         LET credentials == Credentials(fx.adapter, args, env)
         IN  IF AttributeError \in Range(credentials)
             THEN /\ fx' = [fx EXCEPT !.credentials = credentials,
                                      !.state = "construct_raised"]
                  /\ pc' = "fetch_raised"
             ELSE /\ fx' = [fx EXCEPT !.credentials = credentials,
                                      !.state = "constructed"]
                  /\ pc' = "fetch_jobs"
  /\ UNCHANGED <<storeVars, apiVars, http, fetchLog, rc, mainVars, ingVars>>

\* adapter.fetch_jobs(keywords, max_results=..., country=...) up to its
\* first page request.
FetchJobs ==
  /\ pc = "fetch_jobs"
  /\ IF no_credentials(fx.credentials)
     THEN fx' = [fx EXCEPT !.returned = <<>>, !.state = "returned"]
     ELSE LET countries == IF fx.adapter = "adzuna"
                           THEN _resolve_countries(fx.country)
                           ELSE <<fx.country>>
          IN fx' = Advance(
                  [fx EXCEPT
                     !.countries = countries,
                     !.where = IF fx.adapter = "adzuna"
                               THEN country_location(fx.location, countries)
                               ELSE fx.location,
                     !.ci = 1,
                     !.page = 1,
                     !.per_page = per_page(fx.adapter, fx.max_results),
                     !.jobs = <<>>,
                     !.all_jobs = <<>>], FALSE)
  /\ pc' = PcAfter(fx')
  /\ UNCHANGED <<storeVars, apiVars, http, fetchLog, rc, mainVars, ingVars>>

\* _fetch_page returns the page's results; the loop body handles them.
FetchPageOk ==
  /\ pc = "fetch_page"
  /\ \E results \in PageResults(fx.page) :
       LET parsed == parse_results(results, fx.countries[fx.ci], fx.page, 1)
           f == [fx EXCEPT !.attempts = 0]
       IN  /\ fx' = IF results = <<>>
                    THEN Advance(f, TRUE)
                    ELSE IF short_page_break(f, results)
                    THEN Advance([f EXCEPT !.jobs = @ \o parsed], TRUE)
                    ELSE Advance([f EXCEPT !.jobs = @ \o parsed,
                                           !.page = @ + 1], FALSE)
           /\ fetchLog' = Logged(fx', PageFetch(fx, TRUE, results, parsed))
  /\ http' = NoHttp
  /\ pc' = PcAfter(fx')
  /\ UNCHANGED <<storeVars, apiVars, rc, mainVars, ingVars>>

\* An attempt of _fetch_page fails and tenacity sleeps and calls it again.
FetchPageRetry ==
  /\ pc = "fetch_page"
  /\ ~stop_after_attempt(fx.attempts + 1)
  /\ \E o \in Failures :
       /\ FetchRetryable(o)
       /\ \E h \in HeadersOf(o) :
            http' = Attempt("_fetch_page", fx.attempts + 1, o, h,
                            wait_exponential(WAIT_MAX_FETCH, fx.attempts + 1,
                                             o, h),
                            "retrying")
  /\ fx' = [fx EXCEPT !.attempts = @ + 1]
  /\ UNCHANGED <<pc, storeVars, apiVars, fetchLog, rc, mainVars, ingVars>>

\* An attempt of _fetch_page fails for good: _fetch_page raises and the
\* loop's except clause breaks.
FetchPageFail ==
  /\ pc = "fetch_page"
  /\ \E o \in Failures :
       /\ ~FetchRetryable(o) \/ stop_after_attempt(fx.attempts + 1)
       /\ \E h \in HeadersOf(o) :
            http' = Attempt("_fetch_page", fx.attempts + 1, o, h, 0, "raised")
  /\ fx' = on_page_error([fx EXCEPT !.attempts = 0])
  /\ fetchLog' = Logged(fx', PageFetch(fx, FALSE, <<>>, <<>>))
  /\ pc' = PcAfter(fx')
  /\ UNCHANGED <<storeVars, apiVars, rc, mainVars, ingVars>>

FetchNext ==
  \/ FetchConstruct
  \/ FetchJobs
  \/ FetchPageOk
  \/ FetchPageRetry
  \/ FetchPageFail

SpecFetch == FetchInit /\ [][FetchNext]_vars

(***************************************************************************)
(* fetch_jobs against a provider that has results for every page it is     *)
(* asked for.  Page numbers from MaxPageNo on stand for one another: no    *)
(* adapter tells them apart (MAX_PAGE < MaxPageNo).  A request is answered *)
(* or fails (the clients have a timeout of 30 s), and the process goes on  *)
(* as long as it has something to do.                                      *)
(***************************************************************************)
\* fetch_jobs is called without a location, Adzuna's for one market, or
\* for one market named twice.
EndlessInit ==
  /\ pc = "fetch_construct"
  /\ \E name \in Range(ADAPTERS) :
       \E m \in 0..MaxResults :
         \E country \in IF name = "adzuna"
                        THEN {<<"g","b">>, <<"g","b",",","g","b">>}
                        ELSE {<<>>} :
           fx = [NoFetch EXCEPT !.adapter = name, !.max_results = m,
                                !.country = country]
  /\ fetchLog = <<>>
  /\ rc = NoResolve
  /\ http = NoHttp
  /\ ing = NoFrame
  /\ calls = <<>>
  /\ store = {}
  /\ now = 0
  /\ lastCall = NoCall
  /\ everMarked = {}
  /\ MainIdle

\* page += 1
page_after(page) == IF page < MaxPageNo THEN page + 1 ELSE MaxPageNo

\* _fetch_page returns the page's results; the loop body handles them.
FetchPageAny ==
  /\ pc = "fetch_page"
  /\ \E results \in SeqsUpTo({"good", "bad"}, MaxPageLen) :
       LET parsed == parse_results(results, fx.countries[fx.ci], fx.page, 1)
           f == [fx EXCEPT !.attempts = 0]
       IN  fx' = IF results = <<>>
                 THEN Advance(f, TRUE)
                 ELSE IF short_page_break(f, results)
                 THEN Advance([f EXCEPT !.jobs = @ \o parsed], TRUE)
                 ELSE Advance([f EXCEPT !.jobs = @ \o parsed,
                                        !.page = page_after(@)], FALSE)
  /\ http' = NoHttp
  /\ pc' = PcAfter(fx')
  /\ UNCHANGED <<storeVars, apiVars, fetchLog, rc, mainVars, ingVars>>

EndlessNext ==
  \/ FetchConstruct
  \/ FetchJobs
  \/ FetchPageAny
  \/ FetchPageRetry
  \/ FetchPageFail

SpecEndless == EndlessInit /\ [][EndlessNext]_vars /\ WF_vars(EndlessNext)

(***************************************************************************)
(* KeywordFilter called directly, as tests/test_keyword_filter.py does.    *)
(***************************************************************************)
\* The keyword lists KeywordFilter is constructed with.
IncludeArgs ==
  {NoArg, Arg(<<>>), Arg(<<<<"C","h","e","f">>>>),
   Arg(<<<<"c","h","e","f">>, <<"b","i","m">>>>)}

ExcludeArgs == {NoArg, Arg(<<>>), Arg(<<<<"a","r","b">>>>)}

FilterTitles ==
  {<<"A","r","b">>, <<"D","e","v","O","p","s">>, <<"C","h","e","f">>,
   <<"A","R","B"," ","c","h","e","f">>}

FilterDescriptions ==
  {<<"x">>, <<"B","i","m">>, <<"d","e","v","o","p","s">>}

FilterInput ==
  {ScrapedJob(t, d, <<"C","o">>, <<"N","Y">>, None) :
     t \in FilterTitles, d \in FilterDescriptions}

FilterInit ==
  /\ pc = "filter_call"
  /\ \E inc \in IncludeArgs, exc \in ExcludeArgs :
       lastCall = [NoCall EXCEPT !.args = [include_keywords |-> inc,
                                           exclude_keywords |-> exc,
                                           kf |-> KeywordFilter(inc, exc)]]
  /\ everMarked = {}
  /\ store = {}
  /\ now = 0
  /\ ing = NoFrame
  /\ calls = <<>>
  /\ http = NoHttp
  /\ FetchIdle
  /\ MainIdle

\* kf.is_relevant(job)
FilterIsRelevant ==
  /\ pc = "filter_call"
  /\ \E j \in FilterInput :
       lastCall' = [NoCall EXCEPT
                      !.op = "is_relevant",
                      !.args = lastCall.args,
                      !.job = j,
                      !.result = is_relevant(lastCall.args.kf.include_keywords,
                                             lastCall.args.kf.exclude_keywords,
                                             j)]
  /\ pc' = "filter_returned"
  /\ UNCHANGED <<storeVars, everMarked, mainVars, ingVars, http, fetchVars>>

\* kf.filter_jobs(jobs)
FilterJobs ==
  /\ pc = "filter_call"
  /\ \E js \in SeqsUpTo(FilterInput, MaxFilterLen) :
       lastCall' = [NoCall EXCEPT
                      !.op = "filter_jobs",
                      !.args = lastCall.args,
                      !.jobs = js,
                      !.out = filter_jobs(lastCall.args.kf.include_keywords,
                                          lastCall.args.kf.exclude_keywords,
                                          js)]
  /\ pc' = "filter_returned"
  /\ UNCHANGED <<storeVars, everMarked, mainVars, ingVars, http, fetchVars>>

FilterNext ==
  \/ FilterIsRelevant
  \/ FilterJobs

SpecFilter == FilterInit /\ [][FilterNext]_vars

(***************************************************************************)
(* ScrapedJob constructed and converted directly, as tests/test_models.py  *)
(* does.                                                                   *)
(***************************************************************************)
RecordTexts ==
  {<<>>, <<" ","\t">>, <<"A">>, <<" ","A","\n">>, <<"A"," ","b">>}

OptionalTexts == {None, "", "v"}

\* The keyword arguments of the constructor, the defaults of the fields
\* written out: either the required fields vary or the optional ones do.
RecordKw ==
  {[title |-> t, description |-> d, company |-> c, location |-> <<>>,
    company_website |-> None, url |-> None, source_job_id |-> None,
    apply_url |-> None, salary_text |-> None, employment_type |-> None,
    posted_at |-> None] : t \in RecordTexts, d \in RecordTexts,
                          c \in RecordTexts}
  \cup
  {[title |-> <<" ","A","\n">>, description |-> <<"A"," ","b">>,
    company |-> <<"A">>, location |-> l,
    company_website |-> w, url |-> u, source_job_id |-> id,
    apply_url |-> a, salary_text |-> s, employment_type |-> e,
    posted_at |-> p] :
       l \in {<<>>, <<"N","Y">>}, w \in OptionalTexts, u \in OptionalTexts,
       id \in OptionalTexts, a \in OptionalTexts, s \in OptionalTexts,
       e \in {None, "", "contract", "permanent"}, p \in {None, POSTED_AT}}

RecordInit ==
  /\ pc = "record_construct"
  /\ \E kw \in RecordKw : lastCall = [NoCall EXCEPT !.args = kw]
  /\ everMarked = {}
  /\ store = {}
  /\ now = 0
  /\ ing = NoFrame
  /\ calls = <<>>
  /\ http = NoHttp
  /\ FetchIdle
  /\ MainIdle

\* job = ScrapedJob(**kw)
RecordConstruct ==
  /\ pc = "record_construct"
  /\ LET r == ScrapedJob_init(lastCall.args)
     IN  IF r.raised
         THEN /\ pc' = "record_raised"
              /\ lastCall' = [lastCall EXCEPT !.op = "ScrapedJob"]
         ELSE /\ pc' = "record_built"
              /\ lastCall' = [lastCall EXCEPT !.op = "ScrapedJob",
                                              !.result = TRUE,
                                              !.job = r.value]
  /\ UNCHANGED <<storeVars, everMarked, mainVars, ingVars, http, fetchVars>>

\* job.to_ingest_payload()
RecordPayload ==
  /\ pc = "record_built"
  /\ pc' = "record_returned"
  /\ lastCall' = [lastCall EXCEPT !.op = "to_ingest_payload",
                                  !.out = to_ingest_payload(lastCall.job)]
  /\ UNCHANGED <<storeVars, everMarked, mainVars, ingVars, http, fetchVars>>

RecordNext ==
  \/ RecordConstruct
  \/ RecordPayload

SpecRecord == RecordInit /\ [][RecordNext]_vars

(***************************************************************************)
(* The adapters' _parse_result: a raw result of the provider to a record.  *)
(* A key the result lacks is Missing (text fields) or NoArg (numbers and   *)
(* fields that are lowered); `return None`, taken directly or through the  *)
(* except clause, is Raised: no record.                                    *)
(***************************************************************************)
Missing == "<missing>"

\* dict.get(key, default)
get(v, default) == IF v = Missing THEN default ELSE v

\* ADZUNA_COUNTRIES[cc]["currency"]
CURRENCY ==
  [cc \in Range(ADZUNA_COUNTRIES) |->
     CASE cc = <<"g","b">> -> "GBP"
       [] cc = <<"u","s">> -> "USD"
       [] cc = <<"a","u">> -> "AUD"
       [] cc = <<"c","a">> -> "CAD"
       [] cc \in {<<"d","e">>, <<"f","r">>, <<"n","l">>, <<"a","t">>,
                  <<"i","t">>} -> "EUR"
       [] cc = <<"i","n">> -> "INR"
       [] cc = <<"n","z">> -> "NZD"
       [] cc = <<"s","g">> -> "SGD"
       [] cc = <<"z","a">> -> "ZAR"
       [] cc = <<"b","r">> -> "BRL"
       [] cc = <<"p","l">> -> "PLN"]

\* ADZUNA_COUNTRIES.get(country, {}).get("currency", "USD")
currency_of(country) ==
  IF country \in DOMAIN CURRENCY THEN CURRENCY[country] ELSE "USD"

DIGITS == <<"0", "1", "2", "3", "4", "5", "6", "7", "8", "9">>

\* str(n) for n >= 0
RECURSIVE str_int(_)
str_int(n) ==
  IF n < 10 THEN DIGITS[n + 1]
  ELSE str_int(n \div 10) \o DIGITS[(n % 10) + 1]

\* a group of three digits, zero-padded
group3(n) ==
  DIGITS[(n \div 100) + 1] \o DIGITS[((n \div 10) % 10) + 1]
    \o DIGITS[(n % 10) + 1]

\* f"{n:,}" for n >= 0
RECURSIVE format_thousands(_)
format_thousands(n) ==
  IF n < 1000 THEN str_int(n)
  ELSE format_thousands(n \div 1000) \o "," \o group3(n % 1000)

\* Python truth of an optional number: None and 0 are false.
TruthyNumber(x) == x # NoArg /\ x[1] # 0

\* AdzunaAdapter._parse_result, the salary_text it builds
salary_text_of(currency, salary_min, salary_max) ==
  IF TruthyNumber(salary_min) \/ TruthyNumber(salary_max)
  THEN IF TruthyNumber(salary_min) /\ TruthyNumber(salary_max)
       THEN currency \o " " \o format_thousands(salary_min[1]) \o " - "
              \o format_thousands(salary_max[1])
       ELSE IF TruthyNumber(salary_min)
       THEN currency \o " " \o format_thousands(salary_min[1])
       ELSE currency \o " " \o format_thousands(salary_max[1])
  ELSE None

\* AdzunaAdapter._parse_result, the employment type it determines
adzuna_employment_type(contract_type, contract_time) ==
  IF contract_type = "contract" THEN "contract"
  ELSE IF contract_time = "part_time" THEN "part_time"
  ELSE "full_time"

\* The fields of a record the parsers leave at their defaults.
Defaults ==
  [location |-> <<>>, company_website |-> None, url |-> None,
   source_job_id |-> None, apply_url |-> None, salary_text |-> None,
   employment_type |-> None, posted_at |-> None]

Record(t, d, c, rest) ==
  [title |-> t, description |-> d, company |-> c,
   location |-> rest.location, company_website |-> rest.company_website,
   url |-> rest.url, source_job_id |-> rest.source_job_id,
   apply_url |-> rest.apply_url, salary_text |-> rest.salary_text,
   employment_type |-> rest.employment_type, posted_at |-> rest.posted_at]

\* AdzunaAdapter._parse_result(result, country)
adzuna_parse_result(raw, country) ==
  LET title == strip(raw.title)
      description == strip(raw.description)
  IN  IF title = <<>> \/ description = <<>> THEN Raised
      ELSE ScrapedJob_init(
             Record(title, description, raw.company,
                    [Defaults EXCEPT
                       !.url = raw.redirect_url,
                       !.apply_url = raw.redirect_url,
                       !.source_job_id = "adzuna_" \o raw.id,
                       !.salary_text =
                          salary_text_of(currency_of(country),
                                         raw.salary_min,
                                         raw.salary_max),
                       !.employment_type =
                          adzuna_employment_type(
                            get(raw.contract_type, ""),
                            get(raw.contract_time, ""))]))

JOOBLE_TYPES ==
  {<<<<"f","u","l","l","-","t","i","m","e">>, "full_time">>,
   <<<<"p","a","r","t","-","t","i","m","e">>, "part_time">>,
   <<<<"c","o","n","t","r","a","c","t">>, "contract">>,
   <<<<"t","e","m","p","o","r","a","r","y">>, "contract">>,
   <<<<"f","r","e","e","l","a","n","c","e">>, "freelance">>,
   <<<<"i","n","t","e","r","n","s","h","i","p">>, "internship">>}

\* JoobleAdapter._map_employment_type
_map_employment_type(job_type) ==
  IF \E m \in JOOBLE_TYPES : m[1] = lower(job_type)
  THEN (CHOOSE m \in JOOBLE_TYPES : m[1] = lower(job_type))[2]
  ELSE None

\* JoobleAdapter._parse_result(result)
jooble_parse_result(raw) ==
  LET title == strip(raw.title)
      snippet == strip(raw.description)
  IN  IF title = <<>> \/ snippet = <<>> THEN Raised
      ELSE ScrapedJob_init(
             Record(title, snippet, strip(raw.company),
                    [Defaults EXCEPT
                       !.url = raw.redirect_url,
                       !.apply_url = raw.redirect_url,
                       !.salary_text = raw.salary,
                       !.employment_type =
                          _map_employment_type(
                            IF raw.type = NoArg THEN <<>>
                            ELSE raw.type[1])]))

\* CareerJetAdapter._parse_result(result)
careerjet_parse_result(raw) ==
  LET title == strip(raw.title)
      description == strip(raw.description)
  IN  IF title = <<>> \/ description = <<>> THEN Raised
      ELSE ScrapedJob_init(
             Record(title, description, strip(raw.company),
                    [Defaults EXCEPT
                       !.url = raw.redirect_url,
                       !.apply_url = raw.redirect_url,
                       !.salary_text = raw.salary]))

(***************************************************************************)
(* _parse_result called directly, as tests/test_adzuna_adapter.py and      *)
(* tests/test_adapters.py do.  One raw result carries the keys of the      *)
(* three providers; description stands for Jooble's snippet, redirect_url  *)
(* for Jooble's link and CareerJet's url.                                  *)
(***************************************************************************)
RawSalaries == {NoArg, Arg(0), Arg(950), Arg(40000), Arg(1250000)}

RawTypes ==
  {NoArg, Arg(<<>>), Arg(<<"F","u","l","l","-","t","i","m","e">>),
   Arg(<<"t","e","m","p","o","r","a","r","y">>),
   Arg(<<"s","h","i","f","t">>)}

RawResult ==
  [adapter |-> "adzuna", country |-> <<"g","b">>,
   title |-> <<" ","A","\n">>, description |-> <<"A"," ","b">>,
   company |-> <<"C","o">>, id |-> "999", redirect_url |-> "v",
   salary_min |-> NoArg, salary_max |-> NoArg,
   contract_type |-> Missing, contract_time |-> Missing,
   type |-> NoArg, salary |-> None]

RawResults ==
  {[RawResult EXCEPT !.country = cc, !.title = t, !.salary_min = lo,
                     !.salary_max = hi, !.contract_type = ct,
                     !.contract_time = tm] :
     cc \in {<<"g","b">>, <<"d","e">>}, t \in {<<>>, <<" ","A","\n">>},
     lo \in RawSalaries, hi \in RawSalaries,
     ct \in {Missing, "", "contract", "permanent"},
     tm \in {Missing, "part_time", "full_time"}}
  \cup
  {[RawResult EXCEPT !.adapter = a, !.title = t, !.type = ty,
                     !.salary = s] :
     a \in {"jooble", "careerjet"}, t \in {<<>>, <<" ","A","\n">>},
     ty \in RawTypes, s \in {None, "", "v"}}

ParseInit ==
  /\ pc = "parse_call"
  /\ \E r \in RawResults : lastCall = [NoCall EXCEPT !.args = r]
  /\ everMarked = {}
  /\ store = {}
  /\ now = 0
  /\ ing = NoFrame
  /\ calls = <<>>
  /\ http = NoHttp
  /\ FetchIdle
  /\ MainIdle

\* The call returned r: a record, or None.
Parsed(r) ==
  /\ pc' = "parse_returned"
  /\ lastCall' = IF r.raised
                 THEN [lastCall EXCEPT !.op = "_parse_result"]
                 ELSE [lastCall EXCEPT !.op = "_parse_result",
                                       !.result = TRUE, !.job = r.value]
  /\ UNCHANGED <<storeVars, everMarked, mainVars, ingVars, http, fetchVars>>

ParseAdzuna ==
  /\ pc = "parse_call"
  /\ lastCall.args.adapter = "adzuna"
  /\ Parsed(adzuna_parse_result(lastCall.args, lastCall.args.country))

ParseJooble ==
  /\ pc = "parse_call"
  /\ lastCall.args.adapter = "jooble"
  /\ Parsed(jooble_parse_result(lastCall.args))

ParseCareerJet ==
  /\ pc = "parse_call"
  /\ lastCall.args.adapter = "careerjet"
  /\ Parsed(careerjet_parse_result(lastCall.args))

ParseNext ==
  \/ ParseAdzuna
  \/ ParseJooble
  \/ ParseCareerJet

SpecParse == ParseInit /\ [][ParseNext]_vars

(***************************************************************************)
(* cleanup_expired called directly while the clock advances, as            *)
(* tests/test_dedup.py does with entries written in the past.              *)
(***************************************************************************)
CleanupJobs == {JobA1, JobJ2}

\* The clock advances by a second or by the expiry window.
ClockSteps == {1, EXPIRY_SECONDS}

\* How many times the clock has advanced to reach time t.
Ticks(t) == (t \div EXPIRY_SECONDS) + (t % EXPIRY_SECONDS)

\* cursor.rowcount of the DELETE
rowcount(st, after) == Cardinality(st) - Cardinality(after)

CleanupInit ==
  /\ pc = "cleanup_api"
  /\ store = {}
  /\ now = 0
  /\ lastCall = NoCall
  /\ everMarked = {}
  /\ ing = NoFrame
  /\ calls = <<>>
  /\ MainIdle
  /\ http = NoHttp
  /\ FetchIdle

CleanupMarkSeen ==
  /\ pc = "cleanup_api"
  /\ \E j \in CleanupJobs :
       /\ store' = mark_seen(store, j, SourceOf(j), now)
       /\ everMarked' = everMarked \cup {j}
       /\ lastCall' = [NoCall EXCEPT !.op = "mark_seen", !.job = j]
  /\ UNCHANGED <<pc, now, mainVars, ingVars, http, fetchVars>>

CleanupTick ==
  /\ pc = "cleanup_api"
  /\ Ticks(now) < MaxTicks
  /\ \E d \in ClockSteps : now' = now + d
  /\ UNCHANGED <<pc, store, apiVars, mainVars, ingVars, http, fetchVars>>

\* removed = cache.cleanup_expired()
CleanupExpired ==
  /\ pc = "cleanup_api"
  /\ store' = cleanup_expired(store, now)
  /\ lastCall' = [NoCall EXCEPT
                    !.op = "cleanup_expired",
                    !.args = [t |-> now,
                              again |-> /\ lastCall.op = "cleanup_expired"
                                        /\ lastCall.args.t = now],
                    !.before = store,
                    !.n = rowcount(store, store')]
  /\ UNCHANGED <<pc, now, everMarked, mainVars, ingVars, http, fetchVars>>

CleanupNext ==
  \/ CleanupMarkSeen
  \/ CleanupTick
  \/ CleanupExpired

SpecCleanup == CleanupInit /\ [][CleanupNext]_vars

(***************************************************************************)
(* The DedupCache of a process that can be killed at any point.  store is  *)
(* the database file.  mark_seen opens a connection, executes the INSERT   *)
(* OR REPLACE inside a transaction and commits it before it returns; a     *)
(* process that dies loses its memory and its open transaction, the file   *)
(* keeps what was committed.                                               *)
(***************************************************************************)
durRest == <<now, cfg, opts, caller, ai, adapter, total, jobs, filtered_jobs,
             new_jobs, result, mi, provLog, ev, runStore, ingVars, http,
             fetchVars>>

\* JobA1 and JobJ1 have the same content hash, JobJ2 another.
DurJobs == {JobA1, JobJ1, JobJ2}

\* A process opens the cache on an empty file.
DurInit ==
  /\ pc = "store_open"
  /\ store = {}
  /\ now = 0
  /\ lastCall = NoCall
  /\ everMarked = {}
  /\ ing = NoFrame
  /\ calls = <<>>
  /\ http = NoHttp
  /\ FetchIdle
  /\ cfg = [API_URL |-> "http://localhost", API_TOKEN |-> "token"]
  /\ opts = NoOpts
  /\ run = 1
  /\ exitStatus = "running"
  /\ caller = "none"
  /\ ai = 0
  /\ adapter = None
  /\ total = Zero
  /\ jobs = <<>>
  /\ filtered_jobs = <<>>
  /\ new_jobs = <<>>
  /\ result = Zero
  /\ mi = 0
  /\ markedLog = <<>>
  /\ provLog = <<>>
  /\ ev = NoEvents
  /\ runStore = {}

\* mark_seen(job, source) up to conn.execute: the row is in the open
\* transaction.
DurMarkSeen ==
  /\ pc = "store_open"
  /\ \E j \in DurJobs :
       lastCall' = [NoCall EXCEPT
                      !.op = "mark_seen", !.job = j,
                      !.args = [tx |-> mark_seen(store, j, SourceOf(j), now)]]
  /\ pc' = "mark_seen_commit"
  /\ markedLog' = <<>>
  /\ UNCHANGED <<store, everMarked, run, exitStatus, durRest>>

\* mark_batch_seen(jobs, source) is called.
DurMarkBatchSeen ==
  /\ pc = "store_open"
  /\ \E js \in SeqsUpTo(DurJobs, MaxBatchLen) :
       lastCall' = [NoCall EXCEPT !.op = "mark_batch_seen", !.jobs = js,
                                  !.n = 1]
  /\ pc' = "mark_batch"
  /\ markedLog' = <<>>
  /\ UNCHANGED <<store, everMarked, run, exitStatus, durRest>>

\* mark_batch_seen: the next mark_seen up to conn.execute, or the return
\* after the last job.
DurBatchStep ==
  /\ pc = "mark_batch"
  /\ IF lastCall.n <= Len(lastCall.jobs)
     THEN /\ lastCall' =
               [lastCall EXCEPT
                  !.job = lastCall.jobs[lastCall.n],
                  !.args = [tx |-> mark_seen(store, lastCall.jobs[lastCall.n],
                                             "adzuna", now)]]
          /\ pc' = "mark_seen_commit"
     ELSE /\ lastCall' = [lastCall EXCEPT !.result = TRUE]
          /\ pc' = "store_open"
  /\ UNCHANGED <<store, everMarked, run, exitStatus, markedLog, durRest>>

\* mark_seen: conn.commit() and the return.
DurCommit ==
  /\ pc = "mark_seen_commit"
  /\ store' = commit(store, lastCall.args.tx)
  /\ everMarked' = everMarked \cup {lastCall.job}
  /\ markedLog' = Append(markedLog, lastCall.job)
  /\ IF lastCall.op = "mark_batch_seen"
     THEN /\ lastCall' = [lastCall EXCEPT !.n = @ + 1]
          /\ pc' = "mark_batch"
     ELSE /\ lastCall' = [lastCall EXCEPT !.result = TRUE]
          /\ pc' = "store_open"
  /\ UNCHANGED <<run, exitStatus, durRest>>

\* is_seen(job)
DurIsSeen ==
  /\ pc = "store_open"
  /\ \E j \in DurJobs :
       lastCall' = [NoCall EXCEPT !.op = "is_seen", !.job = j,
                                  !.result = is_seen(store, j),
                                  !.before = store]
  /\ UNCHANGED <<pc, store, everMarked, run, exitStatus, markedLog, durRest>>

\* The process is killed: between calls, inside mark_seen before the
\* commit, or between two mark_seen calls of mark_batch_seen.
DurCrash ==
  /\ pc \in {"store_open", "mark_seen_commit", "mark_batch"}
  /\ run < MaxRuns
  /\ exitStatus' = IF lastCall.op = "mark_batch_seen" /\ pc # "store_open"
                   THEN "killed_in_batch" ELSE "killed"
  /\ lastCall' = NoCall
  /\ pc' = "crashed"
  /\ UNCHANGED <<store, everMarked, run, markedLog, durRest>>

\* A new process opens the cache on the same path: DedupCache(db_path)
\* creates the table only if it does not exist.
DurReopen ==
  /\ pc = "crashed"
  /\ run' = run + 1
  /\ pc' = "store_open"
  /\ UNCHANGED <<store, lastCall, everMarked, exitStatus, markedLog, durRest>>

DurNext ==
  \/ DurMarkSeen
  \/ DurMarkBatchSeen
  \/ DurBatchStep
  \/ DurCommit
  \/ DurIsSeen
  \/ DurCrash
  \/ DurReopen

SpecDurable == DurInit /\ [][DurNext]_vars

(***************************************************************************)
(* Properties of the deduplication store.                                  *)
(***************************************************************************)

\* Trimmed, case-folded text, and the content key title|company|location
\* of the specification.
FoldTrim(s) == lower(strip(s))
ContentKey(job) ==
  FoldTrim(job.title) \o <<"|">> \o FoldTrim(job.company)
    \o <<"|">> \o FoldTrim(job.location)
SameContent(a, b) ==
  /\ FoldTrim(a.title) = FoldTrim(b.title)
  /\ FoldTrim(a.company) = FoldTrim(b.company)
  /\ FoldTrim(a.location) = FoldTrim(b.location)

\* C3: is_seen(record) returns true exactly when the store holds an entry
\* carrying the record's non-null source_job_id or an entry whose content
\* hash is the hash of the record's case-folded, trimmed
\* title|company|location; and the call leaves the store as it found it.
C3_IsSeenIffEitherKey ==
  lastCall.op = "is_seen" =>
    /\ lastCall.result =
         (\E r \in store :
            \/ /\ lastCall.job.source_job_id # None
               /\ r.source_job_id = lastCall.job.source_job_id
            \/ r.hash = ContentKey(lastCall.job))
    /\ store = lastCall.before

\* C3 witness: is_seen answered true for a record whose content hash is
\* not in the store (found by its source_job_id alone).
C3_Witness ==
  /\ lastCall.op = "is_seen"
  /\ lastCall.result
  /\ ~(\E r \in store : r.hash = ContentKey(lastCall.job))

\* C4: once a job with a non-null source_job_id X has been marked seen,
\* every candidate carrying X is reported seen, whatever its content,
\* after any further mark_seen / mark_batch_seen calls.
C4_SeenBySourceJobIdForever ==
  \A j \in everMarked :
    j.source_job_id # None =>
      \A c \in DedupJobs :
        c.source_job_id = j.source_job_id => is_seen(store, c)

\* C5 (as stated): once a job has been marked seen, every candidate with
\* the same title, company and location up to letter case and surrounding
\* whitespace is reported seen, whatever its source_job_id; and a
\* candidate differing in company is not reported seen by a store that
\* holds nothing but the marked job.
C5_AsStated ==
  /\ \A j \in everMarked, c \in DedupJobs :
       SameContent(j, c) => is_seen(store, c)
  /\ \A j, c \in DedupJobs :
       ( /\ everMarked = {j}
         /\ FoldTrim(c.title) = FoldTrim(j.title)
         /\ FoldTrim(c.location) = FoldTrim(j.location)
         /\ FoldTrim(c.company) # FoldTrim(j.company) )
       => ~is_seen(store, c)

\* C5 (amended): once a job has been marked seen, every candidate with the
\* same title, company and location up to letter case and surrounding
\* whitespace is reported seen, whatever its source_job_id; and a
\* candidate differing in company that does not carry the marked job's
\* source_job_id is not reported seen by a store that holds nothing but
\* the marked job.
C5_SeenByContentForever ==
  /\ \A j \in everMarked, c \in DedupJobs :
       SameContent(j, c) => is_seen(store, c)
  /\ \A j, c \in DedupJobs :
       ( /\ everMarked = {j}
         /\ FoldTrim(c.title) = FoldTrim(j.title)
         /\ FoldTrim(c.location) = FoldTrim(j.location)
         /\ FoldTrim(c.company) # FoldTrim(j.company)
         /\ (c.source_job_id = None \/ c.source_job_id # j.source_job_id) )
       => ~is_seen(store, c)

\* C5 witness: after further marks, a job marked earlier differs from a
\* candidate in letter case, surrounding whitespace and source_job_id, its
\* own row has been replaced, and the candidate is reported seen.
C5_Witness ==
  /\ JobA1 \in everMarked
  /\ Cardinality(everMarked) >= 3
  /\ ~(\E r \in store : r.source_job_id = "adzuna_1")
  /\ JobJ1 \notin everMarked
  /\ is_seen(store, JobJ1)

\* C6: mark_seen is an insert-or-replace keyed by content hash: count()
\* equals the number of distinct content hashes marked so far.
C6_CountIsDistinctHashes ==
  count(store) = Cardinality({ContentKey(j) : j \in everMarked})

\* C6 witness: the same job was marked twice in one batch and the store
\* holds one entry.
C6_Witness ==
  /\ lastCall.op = "mark_batch_seen"
  /\ Len(lastCall.jobs) = 2
  /\ lastCall.jobs[1] = lastCall.jobs[2]
  /\ everMarked = {lastCall.jobs[1]}
  /\ count(store) = 1

(***************************************************************************)
(* Properties of ingest_in_batches.                                        *)
(***************************************************************************)
Ceil(n, d) == (n + d - 1) \div d

RECURSIVE ConcatChunks(_)
ConcatChunks(cs) ==
  IF cs = <<>> THEN <<>> ELSE Head(cs).chunk \o ConcatChunks(Tail(cs))

\* C10: with batch_size >= 1, ingest_in_batches issues exactly
\* ceil(n / batch_size) ingest_batch calls for n records; the chunks are
\* consecutive slices of the input in order, each of batch_size records
\* except possibly the last, and their concatenation is the input; for
\* n = 0 it issues no call and returns accepted = duplicates = errors = 0.
C10_ChunksPartitionInput ==
  pc = "batch_done" =>
    LET n == Len(ing.jobs)
        bs == ing.batch_size
    IN  /\ Len(calls) = Ceil(n, bs)
        /\ \A k \in 1..Len(calls) :
             /\ k < Len(calls) => Len(calls[k].chunk) = bs
             /\ Len(calls[k].chunk) \in 1..bs
             /\ calls[k].chunk = SubSeq(ing.jobs, (k - 1) * bs + 1,
                                        (k - 1) * bs + Len(calls[k].chunk))
        /\ ConcatChunks(calls) = ing.jobs
        /\ n = 0 => /\ calls = <<>>
                    /\ result = [accepted |-> 0, duplicates |-> 0,
                                 errors |-> 0]

\* C10 witness: 5 jobs sent with batch_size 2 went out as 3 calls of 2, 2
\* and 1 jobs.
C10_Witness ==
  /\ pc = "batch_done"
  /\ Len(ing.jobs) = 5
  /\ ing.batch_size = 2
  /\ Len(calls) = 3
  /\ Len(calls[1].chunk) = 2
  /\ Len(calls[2].chunk) = 2
  /\ Len(calls[3].chunk) = 1

(***************************************************************************)
(* Properties of the orchestration.                                        *)
(***************************************************************************)

\* The chunk of the current ingest_in_batches call that held new_jobs[k].
ChunkOf(k) == calls[((k - 1) \div ing.batch_size) + 1]

\* The provider run has marked everything and is about to return.
MarkingDone == pc = "mark" /\ mi > Len(jobs_to_mark)

\* C1: in a provider run a record is marked seen only if the chunk that
\* contained it was delivered successfully; a record whose chunk failed
\* delivery is left unmarked, so that the next run's filter_new returns it
\* again.
C1_MarkedOnlyIfDelivered ==
  /\ \A k \in 1..Len(markedLog) : ChunkOf(k).ok
  /\ MarkingDone =>
       \A c \in 1..Len(calls) :
         ~calls[c].ok =>
           \A k \in 1..Len(calls[c].chunk) :
             ~is_seen(store, calls[c].chunk[k])

IsPrefix(a, b) ==
  /\ Len(a) <= Len(b)
  /\ \A k \in 1..Len(a) : a[k] = b[k]

InProviderRun == pc \in {"fetch", "filter", "dedup", "ingest_loop", "mark"}

RECURSIVE SumLog(_)
SumLog(log) ==
  IF log = <<>> THEN Zero
  ELSE LET e == log[Len(log)]
           rest == SumLog(SubSeq(log, 1, Len(log) - 1))
       IN  IF e.outcome = "raised"
           THEN [rest EXCEPT !.errors = @ + 1]
           ELSE [accepted |-> rest.accepted + e.counters.accepted,
                 duplicates |-> rest.duplicates + e.counters.duplicates,
                 errors |-> rest.errors + e.counters.errors,
                 filtered |-> rest.filtered + e.counters.filtered,
                 fetched |-> rest.fetched + e.counters.fetched]

AllProvidersOver ==
  /\ caller = "all"
  /\ \/ pc \in {"exit", "sched_wait"}
     \/ pc = "all_next" /\ ai > Len(ADAPTERS)

C8_NoExceptionEscapes == ~(caller = "source" /\ exitStatus = "raised")

\* C9: when the ingestion-service configuration (URL or token) is missing
\* the process ends with exit status 1 before any adapter is constructed
\* or fetched, before any delivery request, and before the dedup store is
\* opened or modified.
C9_MissingConfigStopsFirst ==
  ((cfg.API_URL = "" \/ cfg.API_TOKEN = "") /\ pc # "main") =>
    /\ pc = "exit"
    /\ exitStatus = "exit1"
    /\ ev.constructed = {}
    /\ ~ev.fetched
    /\ ~ev.requested
    /\ ~ev.opened
    /\ store = ev.storeAtStart

\* C9 witness: a process started on a non-empty store with the token
\* missing has ended with exit status 1.
C9_Witness ==
  /\ cfg.API_URL # ""
  /\ cfg.API_TOKEN = ""
  /\ pc = "exit"
  /\ exitStatus = "exit1"
  /\ store # {}
  /\ opts.fetch_all

(***************************************************************************)
(* Properties of the delivery client's failure accounting and retries.     *)
(***************************************************************************)
RECURSIVE SumCalls(_)
SumCalls(cs) ==
  IF cs = <<>> THEN [accepted |-> 0, duplicates |-> 0, errors |-> 0]
  ELSE LET c == cs[Len(cs)]
           rest == SumCalls(SubSeq(cs, 1, Len(cs) - 1))
       IN  IF c.ok
           THEN [accepted |-> rest.accepted + c.body.accepted,
                 duplicates |-> rest.duplicates + c.body.duplicates,
                 errors |-> rest.errors + c.body.errors]
           ELSE [rest EXCEPT !.errors = @ + Len(c.chunk)]

\* C11: in ingest_in_batches a chunk whose send fails adds exactly its size
\* to errors and nothing to accepted or duplicates, every later chunk is
\* still sent, the returned accepted / duplicates / errors are the sums of
\* the successful chunks' response counts plus the sizes of the failed
\* chunks, and ingest_in_batches itself returns, never raises.
C11_FailedChunkCountsItsSize ==
  /\ pc \in {"ingest_loop", "batch_done"}
  /\ pc = "ingest_loop" =>
       [accepted |-> ing.total_accepted,
        duplicates |-> ing.total_duplicates,
        errors |-> ing.total_errors] = SumCalls(calls)
  /\ pc = "batch_done" =>
       /\ result = SumCalls(calls)
       /\ Len(calls) = Ceil(Len(ing.jobs), ing.batch_size)

\* C11 witness: of 5 jobs sent with batch_size 2 the second chunk failed,
\* the first and the third were accepted: accepted 3, errors 2.
C11_Witness ==
  /\ pc = "batch_done"
  /\ Len(ing.jobs) = 5
  /\ ing.batch_size = 2
  /\ Len(calls) = 3
  /\ calls[1].ok /\ ~calls[2].ok /\ calls[3].ok
  /\ result = [accepted |-> 3, duplicates |-> 0, errors |-> 2]

\* An HTTP attempt of the delivery call in progress is made in this step.
SendAttemptStep ==
  \/ pc = "ingest_loop" /\ (calls' # calls \/ ing'.attempts # ing.attempts)
  \/ pc = "single_call" /\ http' # http

\* The attempts the delivery call in progress has made before this step.
AttemptsMade == IF pc = "single_call" THEN http.attempt_number ELSE ing.attempts

\* C12: a delivery call (ingest_single or ingest_batch) whose attempts fail
\* with a connection error, a timeout or an HTTP 429 makes at most 3 HTTP
\* attempts and then fails; an attempt among the first 3 that succeeds
\* ends the call with that response; and ingest_in_batches goes on to the
\* next chunk when a call has ended, whatever its outcome, so no chunk is
\* sent by more than one call and none causes more than 3 HTTP requests.
C12_AtMostThreeAttempts ==
  [][SendAttemptStep =>
       /\ AttemptsMade + 1 <= 3
       /\ http'.state = "retrying" =>
            /\ http'.outcome \in {"connect_error", "timeout", "rate_limited"}
            /\ http'.attempt_number = AttemptsMade + 1
            /\ http'.attempt_number < 3
       /\ (/\ http'.state = "raised"
           /\ http'.outcome \in {"connect_error", "timeout", "rate_limited"})
            => http'.attempt_number = 3
       /\ pc = "single_call" /\ http'.outcome = "ok" =>
            pc' = "single_returned"
       /\ pc = "ingest_loop" /\ calls' # calls =>
            /\ Len(calls') = Len(calls) + 1
            /\ ing'.i = ing.i + ing.batch_size
            /\ ing'.attempts = 0
            /\ calls'[Len(calls')].chunk = Batch(ing)
            /\ calls'[Len(calls')].ok = (http' = NoHttp)
       /\ pc = "ingest_loop" /\ calls' = calls =>
            /\ ing'.i = ing.i
            /\ http'.state = "retrying"]_vars

\* C12 witness: in ingest_in_batches the second chunk's call has raised
\* after its third attempt was answered 429, the first chunk's call having
\* been sent once.
C12_Witness ==
  /\ pc = "ingest_loop"
  /\ Len(calls) = 2
  /\ ~calls[2].ok
  /\ http.callee = "ingest_batch"
  /\ http.state = "raised"
  /\ http.outcome = "rate_limited"
  /\ http.attempt_number = 3

(***************************************************************************)
(* Properties of the market resolver.                                      *)
(***************************************************************************)
Markets == Range(ADZUNA_COUNTRIES)

\* The configured market codes among the entries of the selector, each
\* trimmed and lower-cased.
ValidEntries(es) == {FoldTrim(es[k]) : k \in 1..Len(es)} \cap Markets

\* C20: "all" in any letter case resolves to every configured market;
\* otherwise the selector is split on commas, each entry trimmed and
\* lower-cased, and the result holds exactly the entries that are
\* configured market codes, or every configured market if there is none;
\* the result is never empty and holds only configured markets.
C20_MarketResolution ==
  rc.called =>
    /\ rc.result # <<>>
    /\ Range(rc.result) \subseteq Markets
    /\ lower(rc.country) = <<"a","l","l">> => rc.result = ADZUNA_COUNTRIES
    /\ lower(rc.country) # <<"a","l","l">> =>
         IF ValidEntries(rc.entries) = {}
         THEN rc.result = ADZUNA_COUNTRIES
         ELSE /\ Range(rc.result) = ValidEntries(rc.entries)
              /\ rc.result =
                   SelectSeq([k \in 1..Len(rc.entries) |->
                                FoldTrim(rc.entries[k])],
                             LAMBDA c : c \in Markets)
    /\ rc.entries = <<<<"x","x">>, <<"y","y">>>> =>
         rc.result = ADZUNA_COUNTRIES
    /\ rc.entries = <<<<" ","g","b"," ">>, <<" ","U","S"," ">>>> =>
         rc.result = <<<<"g","b">>, <<"u","s">>>>

\* C20 witness: the selector "gb,xx,us" has been resolved to gb, us.
C20_Witness ==
  /\ rc.called
  /\ rc.country = <<"g","b",",","x","x",",","u","s">>
  /\ rc.result = <<<<"g","b">>, <<"u","s">>>>

(***************************************************************************)
(* Properties of the retry policies.                                       *)
(***************************************************************************)
\* The transient failures: a connection failure, a timeout, an HTTP 429
\* and an error status, which a 5xx is.
Transient == {"connect_error", "timeout", "rate_limited", "http_error"}

\* C13: a delivery call never ends on a single transient failure
\* (connection failure, timeout, HTTP 429, HTTP 5xx): when a call raises
\* on one of these, it has made more than one attempt.
C13_TransientFailuresRetried ==
  (http.state = "raised" /\ http.outcome \in Transient)
    => http.attempt_number > 1

\* C14: for every adapter a page fetch makes at most 3 HTTP attempts: it
\* is attempted again only after a connection failure or an error status
\* (429 included) and only after attempts 1 and 2, and a page fetch that
\* raises on one of these has made exactly 3 attempts.  When a page fetch
\* raises, fetch_jobs does not raise: it requests no further page of that
\* provider (for Adzuna: of that market), keeps the records collected so
\* far (up to max_results) and, when no market is left, returns them.
C14_PageFetchAtMostThreeAttempts ==
  [][pc = "fetch_page" =>
       /\ fx.attempts + 1 <= 3
       /\ pc' \in {"fetch_page", "fetch_done"}
       /\ http'.state = "retrying" =>
            /\ http'.outcome \in {"connect_error", "rate_limited",
                                  "http_error"}
            /\ http'.attempt_number = fx.attempts + 1
            /\ http'.attempt_number < 3
            /\ fx' = [fx EXCEPT !.attempts = @ + 1]
       /\ (/\ http'.state = "raised"
           /\ http'.outcome \in {"connect_error", "rate_limited",
                                 "http_error"})
            => http'.attempt_number = 3
       /\ http'.state = "raised" =>
            /\ fx'.state = "returned" \/ fx'.ci = fx.ci + 1
            /\ fx'.all_jobs = fx.all_jobs \o Take(fx.jobs, fx.max_results)
            /\ fx'.state = "returned" =>
                 /\ pc' = "fetch_done"
                 /\ fx'.returned = fx'.all_jobs]_vars

\* C14 witness: Adzuna, two markets: page 2 of the first market was
\* answered 429 three times; the record of its page 1 is kept and the
\* second market is being fetched.
C14_Witness ==
  /\ pc = "fetch_page"
  /\ fx.adapter = "adzuna"
  /\ fx.ci = 2
  /\ fx.page = 1
  /\ http.state = "raised"
  /\ http.outcome = "rate_limited"
  /\ http.attempt_number = 3
  /\ Len(fx.all_jobs) = 1
  /\ fx.all_jobs[1].page = 1

\* C15: when an attempt is answered HTTP 429, the wait before the next
\* attempt is the number of seconds of the response's Retry-After header,
\* or 60 seconds when the header is absent.
C15_RetryAfterIsTheWait ==
  (http.state = "retrying" /\ http.outcome = "rate_limited")
    => http.slept = retry_after(http.retry_after)

(***************************************************************************)
(* Properties of the adapters' pagination.                                 *)
(***************************************************************************)
\* The page size of a page fetch: the one the adapter asked for, and for
\* Jooble, which asks for none, the provider's.
PageSize(e) == IF fx.adapter = "jooble" THEN MaxPageLen ELSE e.per_page

\* The last page of the market being fetched came back short: not empty
\* and with fewer results than the page size.
LastPageShort ==
  /\ fetchLog # <<>>
  /\ LET e == fetchLog[Len(fetchLog)]
     IN  e.ok /\ 0 < e.n /\ e.n < PageSize(e)

\* C16: for every adapter pagination stops as soon as a page returns
\* fewer results than the page size or max_results records have been
\* collected: a further page is requested only when fewer than max_results
\* records are collected and the last page was not a short one.
C16_StopsAfterShortPage ==
  pc = "fetch_page" =>
    /\ Len(fx.jobs) < fx.max_results
    /\ ~LastPageShort

\* The same for the adapters that ask for a page size.
C16_ExceptJooble == fx.adapter # "jooble" => C16_StopsAfterShortPage

\* C17: for every adapter, every market selector and every provider
\* response, the sequence fetch_jobs returns has at most max_results
\* records.
C17_AtMostMaxResults ==
  pc = "fetch_done" => Len(fx.returned) <= fx.max_results

\* The same for one market.
C17_OneMarket == Len(fx.countries) <= 1 => C17_AtMostMaxResults

\* The records parsed from the pages of log, in page order.
RECURSIVE ParsedOf(_)
ParsedOf(log) ==
  IF log = <<>> THEN <<>>
  ELSE ParsedOf(SubSeq(log, 1, Len(log) - 1)) \o log[Len(log)].parsed

\* C18: when the fetch of page k of a provider (for Adzuna: of a market)
\* fails for good, the pages 1..k-1 having been fetched, the result of
\* fetch_jobs contains every record parsed from the pages 1..k-1, up to
\* max_results and in page order: the failure adds exactly these records
\* to the result, nothing is ever removed from the result, and it is what
\* fetch_jobs returns.
C18_FailedPageKeepsEarlierPages ==
  [][pc = "fetch_page" =>
       /\ Len(fetchLog) = fx.page - 1
       /\ \A i \in 1..Len(fetchLog) :
            fetchLog[i].ok /\ fetchLog[i].page = i /\ fetchLog[i].ci = fx.ci
       /\ fx.jobs = ParsedOf(fetchLog)
       /\ IsPrefix(fx.all_jobs, fx'.all_jobs)
       /\ http'.state = "raised" =>
            fx'.all_jobs =
              fx.all_jobs \o Take(ParsedOf(fetchLog), fx.max_results)
       /\ pc' = "fetch_done" => fx'.returned = fx'.all_jobs]_vars

\* C18 witness: CareerJet: page 1 gave one record, the request of page 2
\* timed out, and fetch_jobs has returned that record.
C18_Witness ==
  /\ pc = "fetch_done"
  /\ fx.adapter = "careerjet"
  /\ Len(fetchLog) = 2
  /\ fetchLog[1].ok
  /\ ~fetchLog[2].ok
  /\ fetchLog[2].page = 2
  /\ http.outcome = "timeout"
  /\ Len(fx.returned) = 1
  /\ fx.returned = fetchLog[1].parsed

\* The adapter was constructed with a required credential absent or
\* empty: neither the argument nor the configuration gave a value.
CredentialsAbsent ==
  /\ pc # "fetch_construct"
  /\ \E k \in 1..Len(fx.credentials) :
       fx.credentials[k] \in {"", AttributeError}

\* C19: for every adapter, when its required credentials are absent or
\* empty, constructing the adapter and calling fetch_jobs raises nothing,
\* issues no network request and returns an empty sequence.
C19_NoCredentialsReturnsEmpty ==
  CredentialsAbsent =>
    /\ pc \in {"fetch_jobs", "fetch_done"}
    /\ fetchLog = <<>>
    /\ http = NoHttp
    /\ pc = "fetch_done" => fx.returned = <<>>

\* The same for Adzuna and Jooble.
C19_ExceptCareerJet ==
  fx.adapter # "careerjet" => C19_NoCredentialsReturnsEmpty

\* C21: in Adzuna's fetch over its markets the location filter is
\* forwarded to the page requests if and only if exactly one market is
\* selected: with one market every request carries the location given,
\* with more than one no request carries a location.
C21_LocationOnlyForOneMarket ==
  (fx.adapter = "adzuna" /\ Truthy(fx.location)) =>
    \A k \in 1..Len(fetchLog) :
      fetchLog[k].location =
        IF Len(fx.countries) = 1 THEN fx.location ELSE None

\* C21 witness: two markets were selected and a location given, and a
\* page of the second market was requested without it.
C21_Witness ==
  /\ fx.adapter = "adzuna"
  /\ fx.location = "London"
  /\ Len(fx.countries) = 2
  /\ fetchLog # <<>>
  /\ fetchLog[1].ci = 2
  /\ fetchLog[1].location = None

\* C21 witness, the other side: one market, and its page request carried
\* the location.
C21_WitnessOneMarket ==
  /\ fx.adapter = "adzuna"
  /\ Len(fx.countries) = 1
  /\ fetchLog # <<>>
  /\ fetchLog[1].location = "London"

(***************************************************************************)
(* Properties of the relevance filter.                                    *)
(***************************************************************************)
\* kw occurs in text as a substring, letter case ignored.
Occurs(kw, text) ==
  LET t == lower(text)
      k == lower(kw)
  IN  \E i \in 0..(Len(t) - Len(k)) : \A c \in 1..Len(k) : t[i + c] = k[c]

\* No keyword of exc occurs in the title and some keyword of inc occurs in
\* the title or in the description.
Relevant(inc, exc, job) ==
  /\ \A k \in 1..Len(exc) : ~Occurs(exc[k], job.title)
  /\ \E k \in 1..Len(inc) :
       Occurs(inc[k], job.title) \/ Occurs(inc[k], job.description)

\* The relevant records of js, in the order of js.
RECURSIVE RelevantOf(_, _, _)
RelevantOf(inc, exc, js) ==
  IF js = <<>> THEN <<>>
  ELSE (IF Relevant(inc, exc, Head(js)) THEN <<Head(js)>> ELSE <<>>)
         \o RelevantOf(inc, exc, Tail(js))

\* C22: is_relevant(record) is true exactly when no exclusion keyword of
\* the filter occurs (case-insensitive substring) in the title and some
\* inclusion keyword occurs in the title or in the description, so an
\* exclusion keyword only in the description never rejects; and
\* filter_jobs(records) returns exactly the relevant records in their
\* input order.
C22_RelevantIffIncludedNotExcluded ==
  /\ lastCall.op = "is_relevant" =>
       lastCall.result = Relevant(lastCall.args.kf.include_keywords,
                                  lastCall.args.kf.exclude_keywords,
                                  lastCall.job)
  /\ lastCall.op = "filter_jobs" =>
       lastCall.out = RelevantOf(lastCall.args.kf.include_keywords,
                                 lastCall.args.kf.exclude_keywords,
                                 lastCall.jobs)

\* C22 witness: under the default vocabulary a record titled "Arb" whose
\* description mentions "devops" is relevant.
C22_Witness ==
  /\ lastCall.op = "is_relevant"
  /\ lastCall.args.kf.exclude_keywords = EXCLUDE_KEYWORDS
  /\ lastCall.args.kf.include_keywords = ARCHITECTURE_KEYWORDS
  /\ lastCall.job.title = <<"A","r","b">>
  /\ lastCall.job.description = <<"d","e","v","o","p","s">>
  /\ lastCall.result

\* The filter was constructed with an explicit inclusion list and an
\* explicit exclusion list.
ExplicitLists ==
  /\ pc = "filter_returned"
  /\ lastCall.args.include_keywords # NoArg
  /\ lastCall.args.exclude_keywords # NoArg

\* C23: a filter constructed with an explicit inclusion list and an
\* explicit exclusion list classifies with exactly those lists, whatever
\* they are, the empty list included: an empty exclusion list excludes
\* nothing.
C23_ExplicitListsAreUsed ==
  (ExplicitLists /\ lastCall.op = "is_relevant") =>
    lastCall.result = Relevant(lastCall.args.include_keywords[1],
                               lastCall.args.exclude_keywords[1],
                               lastCall.job)

\* The same for lists that are not empty.
C23_NonEmptyLists ==
  (/\ ExplicitLists
   /\ lastCall.args.include_keywords[1] # <<>>
   /\ lastCall.args.exclude_keywords[1] # <<>>)
    => C23_ExplicitListsAreUsed

(***************************************************************************)
(* Properties of the record model.                                         *)
(***************************************************************************)
Blank(v) == \A i \in 1..Len(v) : v[i] \in Whitespace

\* t is v without its leading and trailing whitespace.
TrimOf(v, t) ==
  /\ t # <<>>
  /\ t[1] \notin Whitespace
  /\ t[Len(t)] \notin Whitespace
  /\ \E i \in 0..Len(v) :
       /\ i + Len(t) <= Len(v)
       /\ \A k \in 1..Len(v) :
            IF k > i /\ k <= i + Len(t) THEN v[k] = t[k - i]
            ELSE v[k] \in Whitespace

ValidatedFields == {"title", "description", "company"}

\* C24: constructing a record fails when title, description or company is
\* empty or whitespace-only; otherwise the record holds these three fields
\* trimmed and non-empty.
C24_BlankFailsElseTrimmed ==
  /\ pc = "record_raised" =>
       \E f \in ValidatedFields : Blank(lastCall.args[f])
  /\ pc \in {"record_built", "record_returned"} =>
       \A f \in ValidatedFields :
         /\ ~Blank(lastCall.args[f])
         /\ TrimOf(lastCall.args[f], lastCall.job[f])

\* A record was built from a title with surrounding whitespace.
C24_Witness ==
  /\ pc = "record_built"
  /\ lastCall.args.title = <<" ","A","\n">>
  /\ lastCall.job.title = <<"A">>

\* Construction failed on a whitespace-only company.
C24_WitnessRaised ==
  /\ pc = "record_raised"
  /\ lastCall.args.company = <<" ","\t">>
  /\ ~Blank(lastCall.args.title)
  /\ ~Blank(lastCall.args.description)

\* The payload holds the required fields and only known fields, and what
\* it holds is the record's value, posted_at in ISO-8601, never null.
PayloadWellFormed(job, p) ==
  /\ REQUIRED_FIELDS \subseteq DOMAIN p
  /\ DOMAIN p \subseteq REQUIRED_FIELDS \cup OPTIONAL_FIELDS
  /\ \A f \in REQUIRED_FIELDS : p[f] = job[f]
  /\ \A f \in OPTIONAL_FIELDS \cap DOMAIN p :
       /\ p[f] # None
       /\ f # "posted_at" => p[f] = job[f]
  /\ "posted_at" \in DOMAIN p =>
       job.posted_at = POSTED_AT /\ p.posted_at = "2024-06-15T12:00:00+00:00"

\* C27 (amended): the payload contains title, description, company and
\* location, and contains an optional field if and only if the record's
\* value for it is neither None nor the empty string; no field is null.
C27_PayloadHasNonEmptyFields ==
  pc = "record_returned" =>
    /\ PayloadWellFormed(lastCall.job, lastCall.out)
    /\ \A f \in OPTIONAL_FIELDS :
         f \in DOMAIN lastCall.out
           <=> (lastCall.job[f] # None /\ lastCall.job[f] # "")

\* C27 as stated: the payload contains an optional field if and only if
\* the record has a value for it (the field is not None).
C27_AsStated ==
  pc = "record_returned" =>
    /\ PayloadWellFormed(lastCall.job, lastCall.out)
    /\ \A f \in OPTIONAL_FIELDS :
         f \in DOMAIN lastCall.out <=> lastCall.job[f] # None

\* A payload built from a record with a set, an unset and an empty
\* optional field.
C27_Witness ==
  /\ pc = "record_returned"
  /\ lastCall.job.url = "v"
  /\ lastCall.job.company_website = None
  /\ lastCall.job.salary_text = ""
  /\ lastCall.job.posted_at = POSTED_AT
  /\ "url" \in DOMAIN lastCall.out
  /\ "company_website" \notin DOMAIN lastCall.out

(***************************************************************************)
(* Properties of the result-to-record mapping.                             *)
(***************************************************************************)
\* The employment-type signal of a raw result and the canonical value
\* the adapter's mapping table gives it, None when it gives none.
AdzunaSignal(r) ==
  IF r.contract_type = "contract" THEN "contract"
  ELSE IF r.contract_time \in {"part_time", "full_time"} THEN r.contract_time
  ELSE None

JoobleSignal(r) ==
  IF r.type = NoArg THEN None
  ELSE IF \E m \in JOOBLE_TYPES : m[1] = lower(r.type[1])
  THEN (CHOOSE m \in JOOBLE_TYPES : m[1] = lower(r.type[1]))[2]
  ELSE None

Canonical(r) ==
  CASE r.adapter = "adzuna" -> AdzunaSignal(r)
    [] r.adapter = "jooble" -> JoobleSignal(r)
    [] OTHER -> None

RecordParsed == pc = "parse_returned" /\ lastCall.result

\* C25: for every adapter, a missing or unmapped employment-type signal
\* yields a record with employment_type None and a mapped signal yields
\* its canonical value.
C25_UnmappedIsNone ==
  RecordParsed => lastCall.job.employment_type = Canonical(lastCall.args)

\* The same for Jooble and CareerJet only.
C25_ExceptAdzuna ==
  RecordParsed /\ lastCall.args.adapter # "adzuna" =>
    lastCall.job.employment_type = Canonical(lastCall.args)

\* A result is never lost to its employment-type signal: whatever the
\* signal, a result with title and description parses into a record.
C25_NeverAnError ==
  pc = "parse_returned" /\ lastCall.args.title # <<>> => lastCall.result

\* The salary_text the bounds present in a raw result call for.
ExpectedSalaryText(r) ==
  LET C == CURRENCY[r.country]
  IN  IF r.salary_min # NoArg /\ r.salary_max # NoArg
      THEN C \o " " \o format_thousands(r.salary_min[1]) \o " - "
             \o format_thousands(r.salary_max[1])
      ELSE IF r.salary_min # NoArg
      THEN C \o " " \o format_thousands(r.salary_min[1])
      ELSE IF r.salary_max # NoArg
      THEN C \o " " \o format_thousands(r.salary_max[1])
      ELSE None

AdzunaParsed == RecordParsed /\ lastCall.args.adapter = "adzuna"

\* C26: salary_text is "C min - max", "C min", "C max" or absent according
\* to which bounds are present, for every combination of bounds,
\* including a present bound whose value is 0.
C26_SalaryTextForPresentBounds ==
  AdzunaParsed => lastCall.job.salary_text = ExpectedSalaryText(lastCall.args)

\* The same when no present bound is 0.
C26_NonZeroBounds ==
  AdzunaParsed /\ lastCall.args.salary_min # Arg(0)
               /\ lastCall.args.salary_max # Arg(0) =>
    lastCall.job.salary_text = ExpectedSalaryText(lastCall.args)

\* The texts of tests/test_adzuna_adapter.py and of larger bounds.
C26_Examples ==
  AdzunaParsed =>
    /\ lastCall.args.country = <<"g","b">>
         /\ lastCall.args.salary_min = Arg(40000)
         /\ lastCall.args.salary_max = NoArg
         => lastCall.job.salary_text = "GBP 40,000"
    /\ lastCall.args.country = <<"d","e">>
         /\ lastCall.args.salary_min = Arg(950)
         /\ lastCall.args.salary_max = Arg(1250000)
         => lastCall.job.salary_text = "EUR 950 - 1,250,000"
    /\ lastCall.args.salary_min = NoArg /\ lastCall.args.salary_max = NoArg
         => lastCall.job.salary_text = None

(***************************************************************************)
(* Properties of the expiry of dedup entries.                              *)
(***************************************************************************)
Expired(r, t) == t - r.created_at > EXPIRY_SECONDS

\* C29: in every pipeline run, schedule mode included, no entry more than
\* 30 days old is present when filter_new consults the store.
C29_NoExpiredEntryAtFilterNew ==
  pc = "dedup" => \A r \in store : ~Expired(r, now)

\* An entry more than 30 days old answers for a fetched record: filter_new
\* is about to drop the record because of it.
C29_ExpiredEntryStillSeen ==
  /\ pc = "dedup"
  /\ \E i \in 1..Len(filtered_jobs) :
       /\ is_seen(store, filtered_jobs[i])
       /\ \A r \in store :
            (r.hash = _hash_job(filtered_jobs[i])
               \/ r.source_job_id = filtered_jobs[i].source_job_id)
            => Expired(r, now)

\* Entries are removed by the --cleanup run only: no step of a scheduler
\* process removes an entry.
C29_SchedulerNeverDeletes ==
  [][\A r \in store : \E q \in store' : q.hash = r.hash]_vars

\* C28: cleanup_expired at time t deletes exactly the entries whose
\* created_at is more than 30 days before t, keeps every other entry
\* unchanged and returns the number deleted; a second cleanup_expired at
\* the same time returns 0 and changes nothing.
C28_CleanupDeletesExactlyExpired ==
  lastCall.op = "cleanup_expired" =>
    LET t == lastCall.args.t
        old == {r \in lastCall.before : Expired(r, t)}
    IN  /\ store = lastCall.before \ old
        /\ lastCall.n = Cardinality(old)
        /\ lastCall.args.again => lastCall.n = 0 /\ store = lastCall.before

\* A cleanup that deleted an entry 30 days and 1 second old and kept one
\* exactly 30 days old.
C28_Witness ==
  /\ lastCall.op = "cleanup_expired"
  /\ lastCall.n = 1
  /\ \E r \in lastCall.before :
       lastCall.args.t - r.created_at = EXPIRY_SECONDS + 1 /\ r \notin store
  /\ \E r \in store : lastCall.args.t - r.created_at = EXPIRY_SECONDS

\* A second cleanup at the same time, on a store that still has entries.
C28_WitnessAgain ==
  /\ lastCall.op = "cleanup_expired"
  /\ lastCall.args.again
  /\ store # {}

(***************************************************************************)
(* Properties of durability.                                               *)
(***************************************************************************)
\* C30: once mark_seen(record) has returned, a crash at any later point
\* followed by reopening the store yields is_seen(record) = true; a crash
\* in the middle of mark_batch_seen loses none of the records already
\* marked.
C30_MarkedSurvivesCrash ==
  /\ \A j \in everMarked : is_seen(store, j)
  /\ lastCall.op = "is_seen" /\ lastCall.job \in everMarked => lastCall.result

\* After a crash in the middle of mark_batch_seen and a reopen, is_seen is
\* asked about a record the interrupted batch had marked.
C30_Witness ==
  /\ pc = "store_open"
  /\ run = 2
  /\ exitStatus = "killed_in_batch"
  /\ Len(markedLog) = 1
  /\ lastCall.op = "is_seen"
  /\ lastCall.job = markedLog[1]
  /\ lastCall.result

\* A crash inside mark_seen, before the commit: the record was never
\* reported marked and is not seen after the reopen.
C30_WitnessBeforeCommit ==
  /\ pc = "store_open"
  /\ run = 2
  /\ exitStatus = "killed"
  /\ store = {}
  /\ lastCall.op = "is_seen"
  /\ ~lastCall.result

(***************************************************************************)
(* Properties of the order of the providers.                               *)
(***************************************************************************)
\* Two records have the same dedup identity: the same content up to case
\* and surrounding whitespace, or the same non-null source_job_id.
SameIdentity(a, b) ==
  \/ SameContent(a, b)
  \/ a.source_job_id # None /\ a.source_job_id = b.source_job_id

\* The records the earlier providers of this all-providers run handed to
\* delivery, for the providers that ended in one of the given ways.
SentEarlier(outcomes) ==
  UNION {{provLog[i].sent[k] : k \in 1..Len(provLog[i].sent)} :
           i \in {n \in 1..Len(provLog) : provLog[n].outcome \in outcomes}}

\* No delivery call and no mark_seen is in progress or still to come when
\* a provider is constructed and fetches.
NothingPending ==
  pc \in {"construct", "fetch", "filter", "dedup"} /\ caller = "all" =>
    /\ ing = NoFrame
    /\ http = NoHttp
    /\ pc # "construct" => calls = <<>> /\ mi = 0 /\ new_jobs = <<>>

SeenByLaterProvider(outcomes) ==
  pc = "dedup" /\ caller = "all" =>
    \A s \in SentEarlier(outcomes) :
      \A k \in 1..Len(filtered_jobs) :
        SameIdentity(s, filtered_jobs[k]) =>
          /\ is_seen(store, filtered_jobs[k])
          /\ \A n \in 1..Len(filter_new(store, filtered_jobs)) :
               ~SameIdentity(s, filter_new(store, filtered_jobs)[n])

ReturnsNow ==
  IF caller = "all"
  THEN /\ Len(provLog') = Len(provLog) + 1
       /\ provLog'[Len(provLog')].outcome = "returned"
       /\ provLog'[Len(provLog')].counters = result'
  ELSE pc' = "exit" /\ exitStatus' = "ok"

\* Nothing of the run has touched delivery or the dedup store.
NothingInvoked ==
  /\ calls = <<>> /\ calls' = <<>>
  /\ ing = NoFrame /\ ing' = NoFrame
  /\ http = NoHttp /\ http' = NoHttp
  /\ markedLog = <<>> /\ markedLog' = <<>>
  /\ store = runStore /\ store' = store

\* fetch_jobs returns no records: run_adapter returns all-zero counters
\* straight from the fetch, the filter and filter_new never run.
EmptyFetchStep ==
  RunAdapterFetch /\ jobs' = <<>> =>
    /\ ReturnsNow
    /\ result' = Zero
    /\ filtered_jobs = <<>> /\ filtered_jobs' = <<>>
    /\ new_jobs = <<>> /\ new_jobs' = <<>>
    /\ NothingInvoked

\* filter_new returns no records: run_adapter returns from there.
NothingNewStep ==
  pc = "dedup" /\ filter_new(store, filtered_jobs) = <<>> /\ ReturnsNow =>
    /\ result'.accepted = 0
    /\ result'.errors = 0
    /\ result'.duplicates = Len(filtered_jobs)
    /\ result'.filtered = Len(jobs) - Len(filtered_jobs)
    /\ NothingInvoked

\* With nothing new the run never goes on to delivery or to marking.
NothingNewEnds ==
  pc = "dedup" /\ filter_new(store, filtered_jobs) = <<>> =>
    pc' \notin {"ingest_loop", "mark"}

\* C32: a provider run short-circuits: when fetch returns no records it
\* returns all-zero counters without the relevance filter, the dedup store
\* or the delivery client being used; when filter_new returns no records
\* there is no delivery call and no mark_seen, and the counters returned
\* are accepted = 0, errors = 0, duplicates = size of the filtered set,
\* filtered = fetched minus that size.
C32_ShortCircuits ==
  [][EmptyFetchStep /\ NothingNewStep /\ NothingNewEnds]_vars

\* Both short circuits have happened in one all-providers run: a provider
\* that fetched nothing, and one whose filtered records were all seen.
C32_Witness ==
  /\ pc = "all_next"
  /\ \E i \in 1..Len(provLog) :
       /\ provLog[i].outcome = "returned"
       /\ provLog[i].counters = Zero
  /\ \E j \in 1..Len(provLog) :
       /\ provLog[j].outcome = "returned"
       /\ provLog[j].sent = <<>>
       /\ provLog[j].counters.duplicates > 0
       /\ provLog[j].counters.filtered > 0
       /\ provLog[j].counters.accepted = 0
       /\ provLog[j].counters.errors = 0
       /\ provLog[j].counters.fetched =
            provLog[j].counters.duplicates + provLog[j].counters.filtered

\* ---------------------------------------------------------------------
\* Properties of the results of a page that do not parse
\* ---------------------------------------------------------------------

\* The places of the results of a page that parse into a record.
GoodPlaces(results) == {k \in 1..Len(results) : results[k] = "good"}

\* The records of page fetch e are those of its results that parse, one
\* for each and in the order of the results.
KeepsEveryOther(e) ==
  /\ Len(e.parsed) = Cardinality(GoodPlaces(e.results))
  /\ \A j \in 1..Len(e.parsed) :
       /\ e.parsed[j].page = e.page
       /\ e.parsed[j].market = fx.countries[e.ci]
       /\ e.parsed[j].index = j

\* After page fetch e the loop of the adapter asks for the next page: the
\* page was not empty, not short of the page size the adapter asked for,
\* fewer than max_results records are collected, and for CareerJet the
\* next page is not beyond MAX_PAGE.
PaginationGoesOn(e) ==
  /\ e.ok
  /\ e.n > 0
  /\ fx.adapter # "jooble" => e.n >= e.per_page
  /\ Len(fx.jobs) < fx.max_results
  /\ fx.adapter = "careerjet" => e.page + 1 <= MAX_PAGE

\* C33: within one page a result _parse_result returns None for (it is
\* malformed, lacks title or description, or fails the validation of the
\* record) is skipped and every other result of the page becomes a record,
\* in the original order; such a result never ends pagination and never
\* empties the batch: the records collected are those of all the pages
\* fetched, and the next page is asked for whenever the number of results
\* and of records collected call for it, whatever did not parse.
C33_BadResultIsSkipped ==
  /\ \A i \in 1..Len(fetchLog) : fetchLog[i].ok => KeepsEveryOther(fetchLog[i])
  /\ pc \in {"fetch_page", "fetch_done"} /\ fetchLog # <<>> =>
       /\ fx.jobs = ParsedOf(fetchLog)
       /\ PaginationGoesOn(fetchLog[Len(fetchLog)]) =>
            /\ pc = "fetch_page"
            /\ fx.ci = fetchLog[Len(fetchLog)].ci
            /\ fx.page = fetchLog[Len(fetchLog)].page + 1

\* C33 witness: the first result of page 1 did not parse, the second is
\* collected and page 2 is being asked for.
C33_Witness ==
  /\ pc = "fetch_page"
  /\ fx.page = 2
  /\ Len(fetchLog) = 1
  /\ fetchLog[1].results = <<"bad", "good">>
  /\ Len(fx.jobs) = 1
  /\ fx.jobs[1].page = 1

\* ---------------------------------------------------------------------
\* Properties of the end of a fetch
\* ---------------------------------------------------------------------

\* fetch_jobs has returned, or the construction of the adapter raised.
FetchOver == pc \in {"fetch_done", "fetch_raised"}

\* C34: fetch terminates for every adapter whatever the provider returns:
\* with at most 3 attempts per page the pagination loop issues only
\* finitely many page requests, also when every page is full and none of
\* its results parses into a record.
C34_FetchTerminates == <>FetchOver

\* The same for CareerJet, whose loop stops after page MAX_PAGE.
C34_CareerJetTerminates == fx.adapter = "careerjet" => <>FetchOver

\* Adzuna or Jooble has been given full pages without a result that
\* parses and asks for a page beyond MAX_PAGE with nothing collected.
C34_StillPaging ==
  /\ pc = "fetch_page"
  /\ fx.adapter # "careerjet"
  /\ fx.page = MaxPageNo
  /\ fx.jobs = <<>>

\* ---------------------------------------------------------------------
\* Properties of the records of one provider run
\* ---------------------------------------------------------------------

\* C35: within a single provider run no two records with the same content
\* hash, or with the same non-null source_job_id, are both sent to the
\* ingestion service: what filter_new returned holds at most one record
\* per dedup identity, also when the fetched batch holds duplicates.
C35_OnePerIdentity ==
  \A i \in 1..Len(new_jobs) : \A j \in 1..Len(new_jobs) :
    i # j => ~SameIdentity(new_jobs[i], new_jobs[j])

\* What does hold: no record sent was seen when the provider run began.
C35_NoneSeenBefore ==
  \A k \in 1..Len(new_jobs) : ~is_seen(runStore, new_jobs[k])

\* The fetched batch held one record twice and both copies are being sent.
C35_BothSent ==
  /\ pc = "ingest_loop"
  /\ new_jobs = <<JobA1, JobA1>>
  /\ ing.jobs = new_jobs

\* ---------------------------------------------------------------------
\* Properties of the duplicates counter
\* ---------------------------------------------------------------------

\* C36: in every provider run result each record the dedup store removed
\* is counted in duplicates: duplicates >= (size of the relevance-filtered
\* set) - (size of the set handed to delivery), also when some records are
\* new and are sent.
C36_DuplicatesCountLocalRemovals ==
  [][InProviderRun /\ ReturnsNow =>
       result'.duplicates >= Len(filtered_jobs) - Len(new_jobs)]_vars

\* What does hold: the counter covers the removed records when nothing is
\* sent, and is the ingestion service's count when something is.
C36_OnlyWhenNothingSent ==
  [][InProviderRun /\ ReturnsNow =>
       IF new_jobs = <<>>
       THEN result'.duplicates = Len(filtered_jobs)
       ELSE result'.duplicates = result.duplicates]_vars

\* A provider run that sent one of two relevant records, the other being
\* seen, and returned duplicates = 0.
C36_RemovedButNotCounted ==
  \E i \in 1..Len(provLog) :
    /\ provLog[i].outcome = "returned"
    /\ Len(provLog[i].sent) = 1
    /\ provLog[i].counters.fetched - provLog[i].counters.filtered = 2
    /\ provLog[i].counters.duplicates = 0

\* ---------------------------------------------------------------------
\* Properties of the markets one fetch visits
\* ---------------------------------------------------------------------

\* C37: for every market selector the resolved markets hold no code
\* twice (for example for "gb,gb"), so that one fetch visits each market
\* at most once.
C37_NoRepeatedMarket ==
  rc.called =>
    \A i \in 1..Len(rc.result) : \A j \in 1..Len(rc.result) :
      i # j => rc.result[i] # rc.result[j]

\* What does hold: a code is repeated in the result only as often as the
\* selector names it.
C37_AsOftenAsNamed ==
  rc.called /\ lower(rc.country) # <<"a","l","l">>
    /\ ValidEntries(rc.entries) # {} =>
    \A m \in Markets :
      Cardinality({i \in 1..Len(rc.result) : rc.result[i] = m}) <=
        Cardinality({k \in 1..Len(rc.entries) : FoldTrim(rc.entries[k]) = m})

\* The selector "gb,gb" has been resolved to gb, gb.
C37_ResolvedTwice ==
  /\ rc.called
  /\ rc.country = <<"g","b",",","g","b">>
  /\ rc.result = <<<<"g","b">>, <<"g","b">>>>

\* fetch_jobs called with "gb,gb" has fetched page 1 of gb twice and
\* returned its first record twice.
C37_FetchedTwice ==
  /\ pc = "fetch_done"
  /\ fx.countries = <<<<"g","b">>, <<"g","b">>>>
  /\ Len(fx.returned) = 2
  /\ fx.returned[1] = fx.returned[2]

====
